---- MODULE Spec2Model ----
(***************************************************************************)
(* Model of the mods router of the CelesteMods backend: the difficulty     *)
(* tree normaliser (getDifficultyArrays), its inverse                      *)
(* (getSortedDifficultyNames), the map difficulty validator                *)
(* (handleNonNormalMods) and the POST /mods request flow around them.      *)
(***************************************************************************)
EXTENDS Integers, Sequences, FiniteSets, TLC

(***************************************************************************)
(* Bounds of the model.                                                    *)
(***************************************************************************)
MaxNames == 5      \* most names in a generated submission
MaxRows == 3       \* most rows of a generated row set, and their largest order

(***************************************************************************)
(* JavaScript values.  A value of type string | string[] | undefined is a  *)
(* tagged record; a name read past the end of an array is UndefinedName.   *)
(***************************************************************************)
UndefinedName == "<undefined>"
NullID == 0        \* parentDifficultyID === null
NaN == -1          \* the initial value of parentId (line 1308)

StrElem(n) == [type |-> "string", str |-> n, arr |-> <<>>]
ArrElem(a) == [type |-> "array", str |-> "", arr |-> a]
UndefinedValue == [type |-> "undefined", str |-> "", arr |-> <<>>]
NullElem == [type |-> "null", str |-> "", arr |-> <<>>]

\* array[i] for a 0-based index i: undefined past the end
ElementAt(a, i) == IF i + 1 \in 1..Len(a) THEN a[i + 1] ELSE UndefinedName

\* a === b on numbers: NaN is equal to nothing, itself included
StrictEqNum(a, b) == a # NaN /\ b # NaN /\ a = b

RECURSIVE Flatten(_)
Flatten(ss) == IF ss = <<>> THEN <<>> ELSE Head(ss) \o Flatten(Tail(ss))

\* index of the first element of s satisfying Test, 0 when there is none
FirstIndex(s, Test(_)) ==
    IF \E i \in 1..Len(s) : Test(s[i])
    THEN CHOOSE i \in 1..Len(s) : Test(s[i]) /\ \A j \in 1..(i - 1) : ~Test(s[j])
    ELSE 0

(***************************************************************************)
(* getDifficultyArrays (lines 1161-1209)                                   *)
(***************************************************************************)
NoOtherDifficulties == [defined |-> FALSE, create |-> <<>>]

\* the inner loop, lines 1182-1191: JS index j of the inner list gives order j
ChildDifficultyArray(arr) ==
    [j \in 1..(Len(arr) - 1) |-> [name |-> arr[j + 1], order |-> j]]

\* mutant: the 0-based loop index is used as the order
ParentCreationRecord_ZeroBased(elem, parentDifficultyIndex) ==
    IF elem.type = "string"
    THEN [name |-> elem.str, order |-> parentDifficultyIndex,
          other_difficulties |-> NoOtherDifficulties]
    ELSE [name |-> ElementAt(elem.arr, 0), order |-> parentDifficultyIndex,
          other_difficulties |->
              [defined |-> TRUE, create |-> ChildDifficultyArray(elem.arr)]]

\* the record pushed to difficultiesDataArray for the element at 0-based
\* index parentDifficultyIndex
ParentCreationRecord(elem, parentDifficultyIndex) ==
    IF elem.type = "string"
    THEN [name |-> elem.str, order |-> parentDifficultyIndex + 1,
          other_difficulties |-> NoOtherDifficulties]
    ELSE [name |-> ElementAt(elem.arr, 0), order |-> parentDifficultyIndex + 1,
          other_difficulties |->
              [defined |-> TRUE, create |-> ChildDifficultyArray(elem.arr)]]

\* the names pushed to difficultyNamesArray for one element: for an inner
\* list the child names are pushed in the loop and the parent name after it
NamesPushedFor(elem) ==
    IF elem.type = "string"
    THEN <<elem.str>>
    ELSE [j \in 1..(Len(elem.arr) - 1) |-> elem.arr[j + 1]]
         \o <<ElementAt(elem.arr, 0)>>

\* line 1181: String(error) of the TypeError that reading .length of an
\* element that is null, or undefined, throws
difficultyArraysError(elem) ==
    "TypeError: Cannot read properties of " \o elem.type \o " (reading 'length')"

\* lines 1206-1208: what the catch block returns, the error caught at elem
DifficultyArraysError(elem) ==
    [threw |-> TRUE, error |-> difficultyArraysError(elem),
     difficultyNamesArray |-> <<>>, difficultiesDataArray |-> <<>>,
     modHasSubDifficultiesBool |-> FALSE]

\* mutant: reading the first name of an inner list without names throws
ThrowsInLoop_OnEmptyList(elem) ==
    \/ elem.type \notin {"string", "array"}
    \/ elem.type = "array" /\ elem.arr = <<>>

\* line 1181: reading .length of an element that is null or undefined is a
\* TypeError; reading past the end of an inner list is not
ThrowsInLoop(elem) == elem.type \notin {"string", "array"}

getDifficultyArrays(difficultyNames) ==
    IF \E i \in 1..Len(difficultyNames) : ThrowsInLoop(difficultyNames[i])
    THEN DifficultyArraysError(
             difficultyNames[FirstIndex(difficultyNames, LAMBDA elem : ThrowsInLoop(elem))])
    ELSE
    [threw |-> FALSE, error |-> "none",
     difficultyNamesArray |->
         Flatten([i \in 1..Len(difficultyNames) |-> NamesPushedFor(difficultyNames[i])]),
     difficultiesDataArray |->
         [i \in 1..Len(difficultyNames) |-> ParentCreationRecord(difficultyNames[i], i - 1)],
     modHasSubDifficultiesBool |->
         \E i \in 1..Len(difficultyNames) : difficultyNames[i].type = "array"]

(***************************************************************************)
(* The nested create of prisma.mods_ids.create (lines 225-243): every      *)
(* parent record becomes a row with parentDifficultyID null, every child   *)
(* record a row that references the id given to its parent.  Ids are       *)
(* handed out from firstId on, a parent before its children.               *)
(***************************************************************************)
RowsOfParent(rec, parentId) ==
    <<[id |-> parentId, name |-> rec.name, order |-> rec.order,
       parentDifficultyID |-> NullID]>>
    \o [j \in 1..Len(rec.other_difficulties.create) |->
           [id |-> parentId + j,
            name |-> rec.other_difficulties.create[j].name,
            order |-> rec.other_difficulties.create[j].order,
            parentDifficultyID |-> parentId]]

RECURSIVE CreateDifficultyRows(_, _)
CreateDifficultyRows(difficultiesCreationArray, firstId) ==
    IF difficultiesCreationArray = <<>> THEN <<>>
    ELSE LET rows == RowsOfParent(Head(difficultiesCreationArray), firstId)
         IN  rows \o CreateDifficultyRows(Tail(difficultiesCreationArray),
                                          firstId + Len(rows))

Reverse(s) == [i \in 1..Len(s) |-> s[Len(s) + 1 - i]]

(***************************************************************************)
(* getSortedDifficultyNames (lines 1276-1361)                              *)
(***************************************************************************)
\* lines 1280-1302: the rows with a null parent, in input order
ParentDifficultyArray(difficulties) ==
    SelectSeq(difficulties, LAMBDA d : d.parentDifficultyID = NullID)

\* lines 1289-1301: a sub-difficulty joins the first sibling array whose first
\* element has the same parentDifficultyID, else it starts a new one
AddToSiblings(subDifficultiesArray, difficulty) ==
    LET k == FirstIndex(subDifficultiesArray,
                 LAMBDA g : g[1].parentDifficultyID = difficulty.parentDifficultyID)
    IN  IF k = 0 THEN Append(subDifficultiesArray, <<difficulty>>)
        ELSE [subDifficultiesArray EXCEPT ![k] = Append(@, difficulty)]

RECURSIVE SubDifficultiesArray(_, _)
SubDifficultiesArray(difficulties, acc) ==
    IF difficulties = <<>> THEN acc
    ELSE SubDifficultiesArray(Tail(difficulties),
             IF Head(difficulties).parentDifficultyID = NullID THEN acc
             ELSE AddToSiblings(acc, Head(difficulties)))

\* mutant: the siblings are listed as the store returned them
SiblingNamesInOrder_AsStored(siblingArray) ==
    [i \in 1..Len(siblingArray) |-> siblingArray[i].name]

\* lines 1324-1331: for siblingOrder = 1..length the name of the first sibling
\* with that order is pushed; when there is none nothing is pushed
SiblingNamesInOrder(siblingArray) ==
    Flatten([siblingOrder \in 1..Len(siblingArray) |->
        LET k == FirstIndex(siblingArray, LAMBDA s : s.order = siblingOrder)
        IN  IF k = 0 THEN <<>> ELSE <<siblingArray[k].name>>])

\* mutant: the parent of a parentOrder is the row stored at that position
FormattedElement_ParentByPosition(parentDifficultyArray, subDifficultiesArray, parentOrder) ==
    LET p == IF parentOrder \in 1..Len(parentDifficultyArray) THEN parentOrder ELSE 0
        parentId == IF p = 0 THEN NaN ELSE parentDifficultyArray[p].id
        parentName == IF p = 0 THEN "" ELSE parentDifficultyArray[p].name
        g == FirstIndex(subDifficultiesArray,
                 LAMBDA sib : StrictEqNum(sib[1].parentDifficultyID, parentId))
    IN  IF g = 0 THEN StrElem(parentName)
        ELSE ArrElem(<<parentName>> \o SiblingNamesInOrder(subDifficultiesArray[g]))

\* lines 1308-1341: the element pushed to formattedArray for one parentOrder
FormattedElement(parentDifficultyArray, subDifficultiesArray, parentOrder) ==
    LET p == FirstIndex(parentDifficultyArray, LAMBDA d : d.order = parentOrder)
        parentId == IF p = 0 THEN NaN ELSE parentDifficultyArray[p].id
        parentName == IF p = 0 THEN "" ELSE parentDifficultyArray[p].name
        g == FirstIndex(subDifficultiesArray,
                 LAMBDA sib : StrictEqNum(sib[1].parentDifficultyID, parentId))
    IN  IF g = 0 THEN StrElem(parentName)
        ELSE ArrElem(<<parentName>> \o SiblingNamesInOrder(subDifficultiesArray[g]))

FormattedArray(difficulties) ==
    LET parents == ParentDifficultyArray(difficulties)
        subs == SubDifficultiesArray(difficulties, <<>>)
    IN  [parentOrder \in 1..Len(parents) |-> FormattedElement(parents, subs, parentOrder)]

\* mutant: the check of the parent names is left out
ContinuityError_ChildrenOnly(elem) ==
    IF elem.type = "string" THEN "none"
    ELSE IF \E i \in 1..Len(elem.arr) : elem.arr[i] = ""
         THEN "childOrdersNotContinuous" ELSE "none"

\* lines 1345-1357: the error thrown for one element of formattedArray
ContinuityError(elem) ==
    IF elem.type = "string"
    THEN IF elem.str = "" THEN "parentOrdersNotContinuous" ELSE "none"
    ELSE IF \E i \in 1..Len(elem.arr) : elem.arr[i] = ""
         THEN "childOrdersNotContinuous" ELSE "none"

getSortedDifficultyNames(difficulties) ==
    LET formattedArray == FormattedArray(difficulties)
        bad == FirstIndex(formattedArray, LAMBDA e : ContinuityError(e) # "none")
    IN  IF bad = 0
        THEN [threw |-> "none", value |-> formattedArray]
        ELSE [threw |-> ContinuityError(formattedArray[bad]), value |-> <<>>]

(***************************************************************************)
(* Error messages (lines 32-37) and the other errors the flow throws.      *)
(***************************************************************************)
canonicalDifficultyNameErrorMessage == "canonicalDifficulty does not match any default parent difficulty names"
techNameErrorMessage ==
    "A tech name in techAny did not match the names of any tech in the celestemods.com database"
lengthErrorMessage ==
    "length does not match the name of any map lengths in the celestemods.com database"
invalidMapperUserIdErrorMessage == "No user found with ID = "
invalidMapDifficultyErrorMessage ==
    "All maps in a non-Normal mod must be assigned a modDifficulty that matches the difficulties used by the mod (whether default or custom).\nIf the mod uses sub-difficulties, modDifficulty must be given in the form [difficulty, sub-difficulty]."
customDifficultiesArrayIsEmpty == "customDifficultiesArray is empty"
defaultDifficultyObjectsArrayIsEmpty == "defaultDifficultyObjectsArray is empty"
noDefaultDifficulties == "there are no default difficulties"
notImplementedYet == "not implemented yet"
moreThanOneModDetails(id) ==
    "more than 1 mod_details for mod " \o ToString(id) \o " passed to formatMod"
\* lines 150-152 and 928-930: the text thrown for an error that
\* getPublisherConnectionObject returned, error being String(error)
publisherConnectionObjectError(error) == "publisherConnectionObject = \"" \o error \o "\""
\* String(error) of what res.json throws once a response was sent
headersSentError ==
    "Error [ERR_HTTP_HEADERS_SENT]: Cannot set headers after they are sent to the client"
prismaValidationError == "prisma: argument name is missing"

(***************************************************************************)
(* handleNonNormalMods (lines 1780-1845).  The result holds the error      *)
(* thrown ("none" when it returns) and what was written to the map's       *)
(* creation object.  validModDifficultyBool is computed by the code and    *)
(* read nowhere, so it is no part of the result.                           *)
(***************************************************************************)
NoDifficultyConnected == 0

\* lines 1829-1843: the id connected by the search of the default tree,
\* which stops at the first parent with children whose name matches
DefaultChildConnected(defaultDifficultyObjectsArray, modDifficulty) ==
    LET p == FirstIndex(defaultDifficultyObjectsArray,
                 LAMBDA d : /\ d.other_difficulties # <<>>
                            /\ d.name = ElementAt(modDifficulty.arr, 0))
    IN  IF p = 0 THEN NoDifficultyConnected
        ELSE LET children == defaultDifficultyObjectsArray[p].other_difficulties
                 c == FirstIndex(children,
                          LAMBDA ch : ch.name = ElementAt(modDifficulty.arr, 1))
             IN  IF c = 0 THEN NoDifficultyConnected ELSE children[c].id

\* line 1788: !modDifficulty holds for undefined and for the empty string
IsFalsy(value) ==
    \/ value.type = "undefined"
    \/ value.type = "string" /\ value.str = ""

\* lines 1798-1811: the search of a custom tree with sub-difficulties stops
\* at the first parent that has other_difficulties and the claimed name
CustomChildFound(customDifficultiesArray, modDifficulty) ==
    LET p == FirstIndex(customDifficultiesArray,
                 LAMBDA d : /\ d.other_difficulties.defined
                            /\ d.name = ElementAt(modDifficulty.arr, 0))
    IN  /\ p # 0
        /\ \E j \in 1..Len(customDifficultiesArray[p].other_difficulties.create) :
               customDifficultiesArray[p].other_difficulties.create[j].name
                   = ElementAt(modDifficulty.arr, 1)

\* lines 1814-1821: the search of a custom tree without sub-difficulties
CustomParentFound(customDifficultiesArray, modDifficulty) ==
    \E i \in 1..Len(customDifficultiesArray) :
        customDifficultiesArray[i].name = modDifficulty.str

Returned(modType, valid, id) ==
    [threw |-> "none", overallRankSet |-> (modType = "Contest"),
     validModDifficultyBool |-> valid, modDifficultyID |-> id]
Threw(modType, error) ==
    [threw |-> error, overallRankSet |-> (modType = "Contest"),
     validModDifficultyBool |-> FALSE, modDifficultyID |-> NoDifficultyConnected]

handleNonNormalMods(modType, modDifficulty, customDifficultiesArray, defaultDifficultyObjectsArray, modUsesCustomDifficultiesBool, modHasSubDifficultiesBool) ==
    IF IsFalsy(modDifficulty) THEN Threw(modType, invalidMapDifficultyErrorMessage)
    ELSE IF modUsesCustomDifficultiesBool
    THEN IF customDifficultiesArray = <<>>
         THEN Threw(modType, customDifficultiesArrayIsEmpty)
         ELSE IF modHasSubDifficultiesBool
         THEN IF modDifficulty.type # "array"
              THEN Threw(modType, invalidMapDifficultyErrorMessage)
              ELSE Returned(modType,
                       CustomChildFound(customDifficultiesArray, modDifficulty),
                       NoDifficultyConnected)
         ELSE IF modDifficulty.type # "string"
              THEN Threw(modType, invalidMapDifficultyErrorMessage)
              ELSE Returned(modType,
                       CustomParentFound(customDifficultiesArray, modDifficulty),
                       NoDifficultyConnected)
    ELSE IF defaultDifficultyObjectsArray = <<>>
         THEN Threw(modType, defaultDifficultyObjectsArrayIsEmpty)
         ELSE IF modDifficulty.type # "array"
         THEN Threw(modType, invalidMapDifficultyErrorMessage)
         ELSE LET id == DefaultChildConnected(defaultDifficultyObjectsArray, modDifficulty)
              IN  Returned(modType, id # NoDifficultyConnected, id)

(***************************************************************************)
(* getCanonicalDifficultyID (lines 1850-1926) over the default parent      *)
(* difficulties and the tech list of the store.                            *)
(***************************************************************************)
NoID == 0
LargestOrder == 99999

\* lines 1870-1886: the default parent difficulty of the least order
RECURSIVE EasiestDifficulty(_, _, _)
EasiestDifficulty(parents, easiestID, easiestOrder) ==
    IF parents = <<>>
    THEN IF easiestID = NoID
         THEN [threw |-> "Unable to find easiest parent default difficulty", id |-> NoID]
         ELSE [threw |-> "none", id |-> easiestID]
    ELSE IF Head(parents).order = easiestOrder
    THEN [threw |-> "Two default parent difficulties have the same order", id |-> NoID]
    ELSE IF Head(parents).order < easiestOrder
    THEN EasiestDifficulty(Tail(parents), Head(parents).id, Head(parents).order)
    ELSE EasiestDifficulty(Tail(parents), easiestID, easiestOrder)

\* lines 1891-1924: the default difficulty of the hardest listed tech
RECURSIVE HighestTechDifficulty(_, _, _, _)
HighestTechDifficulty(techAny, techList, highestID, highestOrder) ==
    IF techAny = <<>>
    THEN IF highestID = NoID
         THEN [threw |-> "Unable to find highestDifficultyID", id |-> NoID]
         ELSE [threw |-> "none", id |-> highestID]
    ELSE LET t == FirstIndex(techList, LAMBDA tech : tech.name = Head(techAny))
         IN  IF t = 0 THEN [threw |-> techNameErrorMessage, id |-> NoID]
             ELSE IF techList[t].difficultyOrder = highestOrder
             THEN [threw |-> "Two default parent difficulties have the same order",
                   id |-> NoID]
             ELSE IF techList[t].difficultyOrder > highestOrder
             THEN HighestTechDifficulty(Tail(techAny), techList,
                      techList[t].defaultDifficultyID, techList[t].difficultyOrder)
             ELSE HighestTechDifficulty(Tail(techAny), techList, highestID, highestOrder)

\* canonicalDifficultyName is a name or UndefinedName; techAny is a tagged
\* value, undefined or an array of tech names
getCanonicalDifficultyID(canonicalDifficultyName, techAny, parentDefaultDifficulties, techList) ==
    IF canonicalDifficultyName # UndefinedName /\ canonicalDifficultyName # ""
    THEN LET p == FirstIndex(parentDefaultDifficulties,
                      LAMBDA d : d.name = canonicalDifficultyName)
         IN  IF p = 0 THEN [threw |-> canonicalDifficultyNameErrorMessage, id |-> NoID]
             ELSE [threw |-> "none", id |-> parentDefaultDifficulties[p].id]
    ELSE IF techAny.type = "undefined"
    THEN EasiestDifficulty(parentDefaultDifficulties, NoID, LargestOrder)
    ELSE HighestTechDifficulty(techAny.arr, techList, NoID, 0)

(***************************************************************************)
(* getMapIdCreationObject (lines 1655-1775): the canonical difficulty, the  *)
(* length, the mapper, then chapter and side for a Normal mod and          *)
(* handleNonNormalMods for every other type.  mapperUserID is 0 when the   *)
(* map gives none.                                                         *)
(***************************************************************************)
NoMapObject ==
    [canonicalDifficulty |-> NoID, lengthID |-> NoID, chapterAndSide |-> FALSE,
     overallRankSet |-> FALSE, modDifficultyID |-> NoDifficultyConnected]

\* lines 1679-1688
LengthID(lengthObjectArray, lengthName) ==
    LET k == FirstIndex(lengthObjectArray, LAMBDA l : l.name = lengthName)
    IN  IF k = 0 THEN NoID ELSE lengthObjectArray[k].id

\* lines 1851, 1889 and 1719: the store calls getMapIdCreationObject awaits,
\* in order, up to its return or throw
StoreCallsAwaited(mapObject, canonical, lengthID) ==
    <<"difficulties.findMany">>
    \o (IF mapObject.canonicalDifficulty \in {UndefinedName, ""}
           /\ mapObject.techAny.type # "undefined"
        THEN <<"tech_list.findMany">> ELSE <<>>)
    \o (IF canonical.threw = "none" /\ lengthID # NoID /\ mapObject.mapperUserID # 0
        THEN <<"users.findUnique">> ELSE <<>>)

\* line 1637: error.includes(part) for strings
Includes(error, part) ==
    \E i \in 1..(Len(error) - Len(part) + 1) : SubSeq(error, i, i + Len(part) - 1) = part

getMapIdCreationObject(mapObject, modType, lengthObjectArray, customDifficultiesArray, defaultDifficultyObjectsArray, modUsesCustomDifficultiesBool, modHasSubDifficultiesBool, parentDefaultDifficulties, techList, userIDs) ==
    LET canonical == getCanonicalDifficultyID(mapObject.canonicalDifficulty,
                         mapObject.techAny, parentDefaultDifficulties, techList)
        lengthID == LengthID(lengthObjectArray, mapObject.length)
        handled == handleNonNormalMods(modType, mapObject.modDifficulty,
                       customDifficultiesArray, defaultDifficultyObjectsArray,
                       modUsesCustomDifficultiesBool, modHasSubDifficultiesBool)
        made ==
            IF canonical.threw # "none" THEN [threw |-> canonical.threw, object |-> NoMapObject]
            ELSE IF lengthID = NoID THEN [threw |-> lengthErrorMessage, object |-> NoMapObject]
            ELSE IF mapObject.mapperUserID # 0 /\ mapObject.mapperUserID \notin userIDs
            THEN [threw |-> invalidMapperUserIdErrorMessage \o ToString(mapObject.mapperUserID),
                  object |-> NoMapObject]
            ELSE IF modType = "Normal"
            THEN [threw |-> "none",
                  object |-> [canonicalDifficulty |-> canonical.id, lengthID |-> lengthID,
                              chapterAndSide |-> TRUE, overallRankSet |-> FALSE,
                              modDifficultyID |-> NoDifficultyConnected]]
            ELSE IF handled.threw # "none"
            THEN [threw |-> handled.threw, object |-> NoMapObject]
            ELSE [threw |-> "none",
                  object |-> [canonicalDifficulty |-> canonical.id, lengthID |-> lengthID,
                              chapterAndSide |-> FALSE,
                              overallRankSet |-> handled.overallRankSet,
                              modDifficultyID |-> handled.modDifficultyID]]
    IN  [threw |-> made.threw, object |-> made.object,
         awaited |-> StoreCallsAwaited(mapObject, canonical, lengthID)]

\* mutant: the invalid-map-difficulty error is thrown again like an unknown one
StatusForMapError_NoBadRequest(error) ==
    IF \/ error \in {canonicalDifficultyNameErrorMessage, techNameErrorMessage,
                     lengthErrorMessage}
       \/ Includes(error, invalidMapperUserIdErrorMessage)
    THEN 404
    ELSE 0

\* lines 1621-1648: the status getMapIDsCreationArray answers an error with,
\* 0 when it throws the error again
StatusForMapError(error) ==
    IF \/ error \in {canonicalDifficultyNameErrorMessage, techNameErrorMessage,
                     lengthErrorMessage}
       \/ Includes(error, invalidMapperUserIdErrorMessage)
    THEN 404
    ELSE IF error = invalidMapDifficultyErrorMessage THEN 400 ELSE 0

(***************************************************************************)
(* formatMod (lines 1214-1271): the error it returns ("none" when it       *)
(* returns the formatted mod) and the formatted difficulties.  The         *)
(* included mods_details are the approved ones.                            *)
(***************************************************************************)
formatMod(rawMod) ==
    IF rawMod.approvedDetails # 1
    THEN [error |-> moreThanOneModDetails(rawMod.id), difficulties |-> <<>>]
    ELSE LET sorted == getSortedDifficultyNames(rawMod.difficulties)
         IN  IF sorted.threw # "none"
             THEN [error |-> sorted.threw, difficulties |-> <<>>]
             ELSE [error |-> "none", difficulties |-> sorted.value]

(***************************************************************************)
(* Inputs of the difficulty functions.                                     *)
(***************************************************************************)
Names == {"Easy", "Medium", ""}

\* a submission with w names in all is given by the names and, for each, its
\* place: a bare name, the parent name of an inner list, a further name of
\* the inner list before it, or an empty inner list (which holds no name)
Places == {"string", "parent", "child", "empty"}

WellPlaced(w, place, nm) ==
    \A i \in 1..w :
        /\ place[i] = "child" => (i > 1 /\ place[i - 1] \in {"parent", "child"})
        /\ place[i] = "empty" => nm[i] = ""

RECURSIVE BuildSubmission(_, _, _, _)
BuildSubmission(place, nm, i, acc) ==
    IF i > Len(place) THEN acc
    ELSE BuildSubmission(place, nm, i + 1,
             CASE place[i] = "string" -> Append(acc, StrElem(nm[i]))
               [] place[i] = "parent" -> Append(acc, ArrElem(<<nm[i]>>))
               [] place[i] = "empty" -> Append(acc, ArrElem(<<>>))
               [] OTHER -> [acc EXCEPT ![Len(acc)] = ArrElem(Append(@.arr, nm[i]))])

ExampleSubmission ==
    <<StrElem("Easy"), ArrElem(<<"Medium", "Medium+">>), StrElem("Hard")>>

\* a row set as the store may return it: ids are unique and every row has
\* its own name, except that one row may have a blank name; orders and
\* parent references are arbitrary
RowName(i) == IF i = 1 THEN "Easy" ELSE IF i = 2 THEN "Medium"
              ELSE IF i = 3 THEN "Hard" ELSE "Harder"
RowSet(n, blank, ord, par) ==
    [i \in 1..n |-> [id |-> i, name |-> IF i = blank THEN "" ELSE RowName(i),
                     order |-> ord[i], parentDifficultyID |-> par[i]]]

NotCalled == [threw |-> "notCalled", value |-> <<>>]
NoArrays == [threw |-> FALSE, error |-> "none", difficultyNamesArray |-> <<>>, difficultiesDataArray |-> <<>>, modHasSubDifficultiesBool |-> FALSE]

\* submissions with an element that is neither a name nor a list of names
NullSubmissions == {<<NullElem>>, <<UndefinedValue>>, <<StrElem("Easy"), NullElem, ArrElem(<<"Medium">>)>>}

(***************************************************************************)
(* getPublisherConnectionObject (lines 1037-1156) and the GameBanana       *)
(* lookups (lines 2340-2389).  A field of the body that is not given is 0  *)
(* or "", which the code's if (field) treats like undefined.               *)
(***************************************************************************)
\* the users and the publishers of the store; gamebananaID 0 stands for null
Users == <<[id |-> 4, publishers |-> <<1, 2>>],
           [id |-> 5, publishers |-> <<1>>],
           [id |-> 6, publishers |-> <<>>]>>
Publishers == <<[id |-> 1, gamebananaID |-> 7, name |-> "alice"],
                [id |-> 2, gamebananaID |-> 8, name |-> "twin"],
                [id |-> 3, gamebananaID |-> 0, name |-> "twin"]>>

\* the value of publishers in the data of prisma.mods_ids.create
NoConnection == [kind |-> "empty", id |-> 0, name |-> "", gamebananaID |-> 0]
Connect(id) == [kind |-> "connect", id |-> id, name |-> "", gamebananaID |-> 0]
Create(name, gamebananaID) ==
    [kind |-> "create", id |-> 0, name |-> name, gamebananaID |-> gamebananaID]

\* what getPublisherConnectionObject has done when it returns or awaits the
\* lookup: sent an error response, returned an error, returned the
\* connection object, or asked GameBanana
ErrorSent(status, json) ==
    [outcome |-> "errorSent", status |-> status, json |-> json,
     object |-> NoConnection, lookup |-> "none"]
ErrorReturned(error) ==
    [outcome |-> "error", status |-> 0, json |-> error,
     object |-> NoConnection, lookup |-> "none"]
ObjectReturned(object) ==
    [outcome |-> "object", status |-> 0, json |-> "none",
     object |-> object, lookup |-> "none"]
LookupAwaited(kind) ==
    [outcome |-> "lookup", status |-> 0, json |-> "none",
     object |-> NoConnection, lookup |-> kind]

moreThanOnePublisherOfUser ==
    "Specified user has more than 1 associated publisher. Please specify publisherID instead.\n                Publisher IDs associated with the specified user are: "
moreThanOnePublisherOfName ==
    "More than one publisher has the specified name. Please specify publisherID instead.\n                Publisher IDs with the specified name are: "

\* lines 1044-1076, 1095-1126: the branch taken and the reply of the store
PublisherFromStore(userID, publisherGamebananaID, publisherID, publisherName) ==
    IF userID # 0
    THEN LET u == FirstIndex(Users, LAMBDA user : user.id = userID)
         IN  IF u = 0 THEN ErrorSent(404, "userID not found")
             ELSE IF Len(Users[u].publishers) < 1
             THEN ErrorSent(400, "Specified user has no associated publishers.")
             ELSE IF Len(Users[u].publishers) > 1
             THEN ErrorSent(400, moreThanOnePublisherOfUser)
             ELSE ObjectReturned(Connect(Users[u].publishers[1]))
    ELSE IF publisherGamebananaID # 0
    THEN IF \E p \in 1..Len(Publishers) : Publishers[p].gamebananaID = publisherGamebananaID
         THEN ObjectReturned(Connect(publisherGamebananaID))
         ELSE LookupAwaited("byId")
    ELSE IF publisherID # 0
    THEN IF \E p \in 1..Len(Publishers) : Publishers[p].id = publisherID
         THEN ObjectReturned(Connect(publisherID))
         ELSE ErrorSent(404, "publisherID not found.")
    ELSE IF publisherName # ""
    THEN LET publishersFromName == SelectSeq(Publishers, LAMBDA p : p.name = publisherName)
         IN  IF Len(publishersFromName) > 1 THEN ErrorSent(400, moreThanOnePublisherOfName)
             ELSE IF Len(publishersFromName) = 1
             THEN ObjectReturned(Connect(publishersFromName[1].id))
             ELSE LookupAwaited("byName")
    ELSE ObjectReturned(NoConnection)

\* the values axiosResponse.data[0] may hold
NumberValue(n) == [type |-> "number", num |-> n, str |-> "", bool |-> FALSE]
StringValue(s) == [type |-> "string", num |-> 0, str |-> s, bool |-> FALSE]
BooleanValue(b) == [type |-> "boolean", num |-> 0, str |-> "", bool |-> b]
NullValue == [type |-> "null", num |-> 0, str |-> "", bool |-> FALSE]
UndefinedData == [type |-> "undefined", num |-> 0, str |-> "", bool |-> FALSE]

MaxApiNumber == 12   \* largest number a reply of the model holds

\* String(value), line 2354
JsString(value) ==
    CASE value.type = "number" -> ToString(value.num)
      [] value.type = "string" -> value.str
      [] value.type = "boolean" -> IF value.bool THEN "true" ELSE "false"
      [] value.type = "null" -> "null"
      [] OTHER -> "undefined"

\* Number(value), line 2377: nan tells that the result is NaN
IsNumber(n) == [nan |-> FALSE, num |-> n]
IsNaN == [nan |-> TRUE, num |-> 0]
JsNumber(value) ==
    CASE value.type = "number" -> IsNumber(value.num)
      [] value.type = "string" ->
            IF value.str = "" THEN IsNumber(0)
            ELSE IF \E n \in 0..MaxApiNumber : ToString(n) = value.str
            THEN IsNumber(CHOOSE n \in 0..MaxApiNumber : ToString(n) = value.str)
            ELSE IsNaN
      [] value.type = "boolean" -> IsNumber(IF value.bool THEN 1 ELSE 0)
      [] value.type = "null" -> IsNumber(0)
      [] OTHER -> IsNaN

\* a reply of GameBanana: axios throws when the host is not reached, or
\* resolves to a response that carries a status
Unreachable == [reached |-> FALSE, status |-> 0, data |-> UndefinedData]
Replied(status, data) == [reached |-> TRUE, status |-> status, data |-> data]
NoReply == [reached |-> FALSE, status |-> -1, data |-> UndefinedData]

\* lines 2346-2351, 2371-2376: axios threw, or the status is not 200
ApiFailed(reply) == ~reply.reached \/ reply.status # 200

\* lines 2346-2358, 2371-2387: String(error) of the error returned, the one
\* axios threw or the one made for a status other than 200
ApiError(reply) ==
    IF ~reply.reached THEN "Error: connect ECONNREFUSED"
    ELSE "Error: GameBanana api not responding as expected."

\* lines 2340-2360
getGamebananaUsernameById(reply) ==
    IF ApiFailed(reply) THEN [error |-> TRUE, threw |-> ApiError(reply), name |-> ""]
    ELSE [error |-> FALSE, threw |-> "none", name |-> JsString(reply.data)]

\* lines 2365-2389
getGamebananaIdByUsername(reply) ==
    IF ApiFailed(reply) THEN [error |-> TRUE, threw |-> ApiError(reply), id |-> 0]
    ELSE [error |-> FALSE, threw |-> "none",
          id |-> IF JsNumber(reply.data).nan THEN -1 ELSE JsNumber(reply.data).num]

\* line 1087
IsNotFoundName(nameFromGamebanana) == nameFromGamebanana = "false"

\* lines 1083-1100 and 1131-1146: what follows the reply of GameBanana
PublisherFromLookup(lookup, reply, publisherGamebananaID, publisherName) ==
    IF lookup = "byId"
    THEN LET nameFromGamebanana == getGamebananaUsernameById(reply)
         IN  IF nameFromGamebanana.error THEN ErrorReturned(nameFromGamebanana.threw)
             ELSE IF IsNotFoundName(nameFromGamebanana.name)
             THEN ErrorSent(404, "Specified Member ID does not exist on GameBanana.")
             ELSE ObjectReturned(Create(nameFromGamebanana.name, publisherGamebananaID))
    ELSE LET gamebananaID == getGamebananaIdByUsername(reply)
         IN  IF gamebananaID.error THEN ErrorReturned(gamebananaID.threw)
             ELSE IF gamebananaID.id = -1
             THEN ErrorSent(404, "Specified username does not exist on GameBanana.")
             ELSE ObjectReturned(Create(publisherName, gamebananaID.id))

\* the replies of GameBanana in the model
ApiData == {NumberValue(9), StringValue("9"), StringValue("bob"), StringValue("false"),
            BooleanValue(FALSE), NullValue, UndefinedData}
ApiReplies == {Unreachable} \cup {Replied(204, UndefinedData), Replied(500, UndefinedData)}
                  \cup {Replied(200, data) : data \in ApiData}

\* mutant: a failed lookup is tried again
LookupAttempts_Retry == 1 + 1

\* lines 1083 and 1131: a lookup is called once, there is no retry loop
LookupAttempts == 1

(***************************************************************************)
(* The store of the POST /mods flow and the inputs of a request.           *)
(***************************************************************************)
NumReqs == 2       \* requests of the model; the specifications start the first
MaxMaps == 2       \* most maps of a request
MaxTreeNames == 3  \* most names in the difficulties of a request

Reqs == 1..NumReqs

\* the default difficulties (parentModID null), as findMany with
\* other_difficulties included returns them
DefaultDifficultyObjectsArray ==
    <<[id |-> 1, name |-> "Easy", order |-> 1,
       other_difficulties |-> <<[id |-> 3, name |-> "Medium", order |-> 1]>>],
      [id |-> 2, name |-> "Hard", order |-> 2, other_difficulties |-> <<>>]>>

LengthObjectArray == <<[id |-> 1, name |-> "Short"], [id |-> 2, name |-> "Long"]>>

TechList == <<[name |-> "wavedash", defaultDifficultyID |-> 1, difficultyOrder |-> 1],
              [name |-> "hyper", defaultDifficultyID |-> 2, difficultyOrder |-> 2],
              [name |-> "wallbounce", defaultDifficultyID |-> 2, difficultyOrder |-> 2]>>

UserIDs == {5}

FirstCustomDifficultyID == 10

\* a mod already stored before the requests of the model arrive
ExistingMod(approved) ==
    [id |-> 1, gamebananaModID |-> 1, approvedDetails |-> IF approved THEN 1 ELSE 0,
     difficulties |-> <<>>, maps |-> <<>>, publisher |-> Connect(1), createdBy |-> 0]

\* a mod created earlier from the submission [Easy, [Medium, Medium+], Hard]
ExistingModWithTree ==
    [id |-> 1, gamebananaModID |-> 2, approvedDetails |-> 1,
     difficulties |->
         CreateDifficultyRows(getDifficultyArrays(ExampleSubmission).difficultiesDataArray,
                              FirstCustomDifficultyID),
     maps |-> <<>>, publisher |-> Connect(1), createdBy |-> 0]

\* what a map may claim as modDifficulty
ModDifficultyNames == {"Easy", "Medium", "Hard"}
ModDifficulties ==
    {UndefinedValue, StrElem("")}
        \cup {StrElem(n) : n \in ModDifficultyNames}
        \cup {ArrElem(a) : a \in UNION {[1..k -> ModDifficultyNames] : k \in 0..2}}

MapObject(modDifficulty) ==
    [modDifficulty |-> modDifficulty, length |-> "Short",
     canonicalDifficulty |-> UndefinedName, techAny |-> UndefinedValue,
     mapperUserID |-> 0]

NotGiven == [given |-> FALSE, list |-> <<>>]
Given(list) == [given |-> TRUE, list |-> list]

NoBody == [sent |-> FALSE, valid |-> FALSE, type |-> "Normal", gamebananaModID |-> 0,
           difficulties |-> NotGiven, maps |-> <<>>,
           userID |-> 0, publisherGamebananaID |-> 0, publisherID |-> 0,
           publisherName |-> "", route |-> "none", param |-> ""]

NoLocals ==
    [difficultiesCreationArray |-> <<>>, defaultDifficultyObjectsArray |-> <<>>,
     modHasSubDifficultiesBool |-> TRUE, modUsesCustomDifficultiesBool |-> TRUE,
     publisherConnectionObject |-> NoConnection, lookup |-> "none", apiCalls |-> 0,
     apiReply |-> NoReply, id |-> 0, id2 |-> 0, mod |-> 0, handlerRuns |-> 0, matchingMod |-> 0, updates |-> 0]

NoResponse == [status |-> 0, json |-> "none", errorSent |-> FALSE, responses |-> 0,
               nextCalls |-> 0, nextError |-> "none"]

IdleTask == [status |-> "idle", answered |-> 0, threw |-> "none", object |-> NoMapObject]

(***************************************************************************)
(* importPublicKey (importPublicKey.ts, lines 10-27) and the uses of the   *)
(* key it produces.  The key string is a sequence of characters; the      *)
(* decoded bytes are not modelled, so whether they parse as a key is left  *)
(* open.                                                                   *)
(***************************************************************************)
MaxKeyChars == 4   \* most characters of a key string

\* characters of the base64 alphabet, the padding and one outside of it
KeyChars == {"A", "/", "=", "!"}

NoKey == [format |-> "none", name |-> "none", hash |-> "none",
          extractable |-> FALSE, usages |-> {}]
KeyNotImported == [state |-> "notCalled", key |-> NoKey, signed |-> "untried", exported |-> "untried", verified |-> "untried"]

\* the outcome of an operation of crypto.subtle that needs a permission
Outcome(permitted) == IF permitted THEN "done" ELSE "refused"

\* crypto.subtle.importKey(format, keyData, algorithm, extractable, keyUsages)
\* for a public key: the promise is rejected when the data is no key of the
\* format or when a usage other than verify is asked for
importKey(format, parses, name, hash, extractable, keyUsages) ==
    IF ~parses \/ ~(keyUsages \subseteq {"verify"})
    THEN [KeyNotImported EXCEPT !.state = "rejected"]
    ELSE [KeyNotImported EXCEPT
             !.state = "imported",
             !.key = [format |-> format, name |-> name, hash |-> hash,
                      extractable |-> extractable, usages |-> keyUsages]]

\* mutant: the key is imported as extractable
importPublicKey_Extractable(decodes, parses) ==
    IF ~decodes THEN [KeyNotImported EXCEPT !.state = "threw"]
    ELSE importKey("spki", parses, "RSA-PSS", "SHA-256", TRUE, {"verify"})

\* lines 10-27: decodes tells whether base64StringToArrayBuffer returned,
\* parses whether the bytes are a DER-encoded key
importPublicKey(decodes, parses) ==
    IF ~decodes THEN [KeyNotImported EXCEPT !.state = "threw"]
    ELSE importKey("spki", parses, "RSA-PSS", "SHA-256", FALSE, {"verify"})

VARIABLES
    phase,             \* position of the difficulty pipeline
    difficultyNames,   \* the submission given to getDifficultyArrays
    difficultyArrays,  \* what getDifficultyArrays returned
    difficulties,      \* the stored rows, as the store returns them
    formattedArray,    \* what getSortedDifficultyNames returned or threw
    body,              \* req.body of every request
    pc,                \* the await every request handler stands at
    locals,            \* the local variables of every request handler
    tasks,             \* the promises of Promise.all, one per map of a request
    res,               \* the response of every request and its calls of next
    mods,              \* the mods of the store
    publicKeyString,   \* the argument of importPublicKey
    publicKey          \* what importPublicKey produced, and the uses tried with it

vars == <<phase, difficultyNames, difficultyArrays, difficulties, formattedArray,
          body, pc, locals, tasks, res, mods, publicKeyString, publicKey>>

pipelineVars == <<phase, difficultyNames, difficultyArrays, difficulties, formattedArray>>
postVars == <<body, pc, locals, tasks, res, mods>>
keyVars == <<publicKeyString, publicKey>>

\* importPublicKey is not called
NoKeyImport ==
    /\ publicKeyString = <<>>
    /\ publicKey = KeyNotImported

\* no request is under way
NoRequests ==
    /\ body = [r \in Reqs |-> NoBody]
    /\ pc = [r \in Reqs |-> "none"]
    /\ locals = [r \in Reqs |-> NoLocals]
    /\ tasks = [r \in Reqs |-> <<>>]
    /\ res = [r \in Reqs |-> NoResponse]
    /\ mods = <<>>
    /\ NoKeyImport

\* the difficulty pipeline is not used
NoPipeline ==
    /\ phase = "none"
    /\ difficultyNames = <<>>
    /\ difficultyArrays = NoArrays
    /\ difficulties = <<>>
    /\ formattedArray = NotCalled
    /\ NoKeyImport

(***************************************************************************)
(* The difficulty pipeline: parse a submission, store the rows, rebuild.   *)
(***************************************************************************)
InitDifficulty ==
    /\ phase = "submitted"
    /\ \/ difficultyNames = ExampleSubmission
       \/ difficultyNames \in NullSubmissions
       \/ \E w \in 0..MaxNames :
             \E place \in [1..w -> Places], nm \in [1..w -> Names] :
                 /\ WellPlaced(w, place, nm)
                 /\ difficultyNames = BuildSubmission(place, nm, 1, <<>>)
    /\ difficultyArrays = NoArrays
    /\ difficulties = <<>>
    /\ formattedArray = NotCalled
    /\ NoRequests

CallGetDifficultyArrays ==
    /\ phase = "submitted"
    /\ difficultyArrays' = getDifficultyArrays(difficultyNames)
    /\ phase' = "parsed"
    /\ UNCHANGED <<difficultyNames, difficulties, formattedArray, postVars, keyVars>>

\* the create is refused when a required name is undefined; the rows come
\* back in an order the store chooses
AllNamesDefined(creationArray) ==
    \A i \in 1..Len(creationArray) :
        /\ creationArray[i].name # UndefinedName
        /\ \A j \in 1..Len(creationArray[i].other_difficulties.create) :
               creationArray[i].other_difficulties.create[j].name # UndefinedName

StoreDifficulties ==
    /\ phase = "parsed"
    /\ ~difficultyArrays.threw
    /\ AllNamesDefined(difficultyArrays.difficultiesDataArray)
    /\ \E firstId \in {1, 7}, reversed \in BOOLEAN :
          LET rows == CreateDifficultyRows(difficultyArrays.difficultiesDataArray, firstId)
          IN  difficulties' = IF reversed THEN Reverse(rows) ELSE rows
    /\ phase' = "stored"
    /\ UNCHANGED <<difficultyNames, difficultyArrays, formattedArray, postVars, keyVars>>

CallGetSortedDifficultyNames ==
    /\ phase = "stored"
    /\ formattedArray' = getSortedDifficultyNames(difficulties)
    /\ phase' = "sorted"
    /\ UNCHANGED <<difficultyNames, difficultyArrays, difficulties, postVars, keyVars>>

NextDifficulty ==
    \/ CallGetDifficultyArrays
    \/ StoreDifficulties
    \/ CallGetSortedDifficultyNames

SpecDifficulty == InitDifficulty /\ [][NextDifficulty]_vars

(***************************************************************************)
(* getSortedDifficultyNames applied to an arbitrary stored row set.        *)
(***************************************************************************)
InitRows ==
    /\ phase = "stored"
    /\ difficultyNames = <<>>
    /\ difficultyArrays = NoArrays
    /\ \E n \in 0..MaxRows :
          \E blank \in 0..n, ord \in [1..n -> 1..MaxRows], par \in [1..n -> 0..n] :
              difficulties = RowSet(n, blank, ord, par)
    /\ formattedArray = NotCalled
    /\ NoRequests

NextRows == CallGetSortedDifficultyNames

SpecRows == InitRows /\ [][NextRows]_vars

(***************************************************************************)
(* POST /mods (lines 106-294).  A handler runs from one await to the next  *)
(* in one step; the replies of the store arrive in any order.              *)
(***************************************************************************)
\* res.status(status).json(json)
Respond(response, status, json, errorSent) ==
    [response EXCEPT !.status = status, !.json = json, !.errorSent = errorSent,
                     !.responses = @ + 1]

\* next(error), from the catch of lines 291-293
CallNext(response, error) ==
    [response EXCEPT !.nextCalls = @ + 1, !.nextError = error]

\* mutant: the handler goes on to the transaction after the error was sent
PcAfterMapErrorSent_GoesOn == "findFirst"

\* line 187: the handler returns when getMapIDsCreationArray sent an error
PcAfterMapErrorSent == "done"

\* lines 275-289: what follows the transaction
ResponseAfterTransaction(response, local, modType, rawMod, status) ==
    IF local.modUsesCustomDifficultiesBool /\ modType # "Normal"
    THEN CallNext(response, notImplementedYet)
    ELSE LET formatted == formatMod(rawMod)
         IN  IF formatted.error # "none" THEN CallNext(response, formatted.error)
             ELSE Respond(response, status, "formattedMod", FALSE)

\* lines 108-143: validateModPost decides on the schema of the body
ValidateModPost(r) ==
    /\ pc[r] = "start"
    /\ \E valid \in BOOLEAN :
          /\ body' = [body EXCEPT ![r].valid = valid]
          /\ IF valid
             THEN /\ pc' = [pc EXCEPT ![r] = "publisher"]
                  /\ res' = res
             ELSE /\ pc' = [pc EXCEPT ![r] = "done"]
                  /\ res' = [res EXCEPT ![r] =
                                Respond(@, 400, "Malformed request body", FALSE)]
    /\ UNCHANGED <<keyVars, pipelineVars, locals, tasks, mods>>

\* lines 148-171: getPublisherConnectionObject has returned the connection
\* object; the difficulties of the body are parsed
PublisherConnected(r, local) ==
    IF body[r].difficulties.given
    THEN LET arrays == getDifficultyArrays(body[r].difficulties.list)
         IN  IF arrays.threw
             THEN /\ res' = [res EXCEPT ![r] = CallNext(@, arrays.error)]
                  /\ locals' = [locals EXCEPT ![r] = local]
                  /\ pc' = [pc EXCEPT ![r] = "done"]
             ELSE /\ res' = res
                  /\ locals' = [locals EXCEPT ![r] =
                        [local EXCEPT
                            !.difficultiesCreationArray = arrays.difficultiesDataArray,
                            !.modHasSubDifficultiesBool = arrays.modHasSubDifficultiesBool,
                            !.modUsesCustomDifficultiesBool = TRUE]]
                  /\ pc' = [pc EXCEPT ![r] = "lengths"]
    ELSE /\ res' = res
         /\ locals' = [locals EXCEPT ![r] = local]
         /\ pc' = [pc EXCEPT ![r] = "defaults"]

\* lines 146-171 and 1044-1126: the store answers the query of
\* getPublisherConnectionObject, which sends an error, returns the connection
\* object or calls GameBanana
PublisherResolved(r) ==
    /\ pc[r] = "publisher"
    /\ LET found == PublisherFromStore(body[r].userID, body[r].publisherGamebananaID,
                                       body[r].publisherID, body[r].publisherName)
       IN  CASE found.outcome = "errorSent" ->
                  /\ res' = [res EXCEPT ![r] = Respond(@, found.status, found.json, TRUE)]
                  /\ pc' = [pc EXCEPT ![r] = "done"]
                  /\ locals' = locals
             [] found.outcome = "lookup" ->
                  /\ res' = res
                  /\ pc' = [pc EXCEPT ![r] = "gamebanana"]
                  /\ locals' = [locals EXCEPT ![r].lookup = found.lookup,
                                              ![r].apiCalls = @ + 1]
             [] OTHER ->
                  PublisherConnected(r, [locals[r] EXCEPT
                                            !.publisherConnectionObject = found.object])
    /\ UNCHANGED <<keyVars, pipelineVars, body, tasks, mods>>

\* lines 1083-1100, 1131-1146 and 148-152: GameBanana answers, or does not
GamebananaReplied(r) ==
    /\ pc[r] = "gamebanana"
    /\ \E reply \in ApiReplies :
          LET after == PublisherFromLookup(locals[r].lookup, reply,
                           body[r].publisherGamebananaID, body[r].publisherName)
              local == [locals[r] EXCEPT !.apiReply = reply]
          IN  CASE after.outcome = "error" ->
                     IF locals[r].apiCalls < LookupAttempts
                     THEN /\ res' = res
                          /\ pc' = pc
                          /\ locals' = [locals EXCEPT ![r] =
                                            [local EXCEPT !.apiCalls = @ + 1]]
                     ELSE /\ res' = [res EXCEPT ![r] =
                                        CallNext(@, publisherConnectionObjectError(after.json))]
                          /\ pc' = [pc EXCEPT ![r] = "done"]
                          /\ locals' = [locals EXCEPT ![r] = local]
                [] after.outcome = "errorSent" ->
                     /\ res' = [res EXCEPT ![r] =
                                   Respond(@, after.status, after.json, TRUE)]
                     /\ pc' = [pc EXCEPT ![r] = "done"]
                     /\ locals' = [locals EXCEPT ![r] = local]
                [] OTHER ->
                     PublisherConnected(r, [local EXCEPT
                                               !.publisherConnectionObject = after.object])
    /\ UNCHANGED <<keyVars, pipelineVars, body, tasks, mods>>

\* lines 173-178: the default difficulties arrive
DefaultDifficultiesFound(r) ==
    /\ pc[r] = "defaults"
    /\ locals' = [locals EXCEPT ![r].defaultDifficultyObjectsArray = DefaultDifficultyObjectsArray]
    /\ IF DefaultDifficultyObjectsArray = <<>>
       THEN /\ res' = [res EXCEPT ![r] = CallNext(@, noDefaultDifficulties)]
            /\ pc' = [pc EXCEPT ![r] = "done"]
       ELSE /\ res' = res
            /\ pc' = [pc EXCEPT ![r] = "lengths"]
    /\ UNCHANGED <<keyVars, pipelineVars, body, tasks, mods>>

\* lines 182-185 and 1608-1617: the lengths arrive and Promise.all starts
\* getMapIdCreationObject for every map; each waits for its first reply
MapLengthsFound(r) ==
    /\ pc[r] = "lengths"
    /\ tasks' = [tasks EXCEPT ![r] =
                    [m \in 1..Len(body[r].maps) |-> [IdleTask EXCEPT !.status = "pending"]]]
    /\ pc' = [pc EXCEPT ![r] = IF body[r].maps = <<>> THEN "findFirst" ELSE "maps"]
    /\ UNCHANGED <<keyVars, pipelineVars, body, locals, res, mods>>

\* mutant: every rejection of a map reaches the catch block
PromiseAllRejected_Never(r) == FALSE

\* lines 1608-1617: Promise.all was rejected by an earlier rejection and the
\* handler has gone on; what the other maps settle to is dropped
PromiseAllRejected(r) == pc[r] # "maps"

\* lines 1611-1649: the store answers the call that getMapIdCreationObject
\* of one map awaits.  The function goes on to its next store call or,
\* after the last one, ends.  The first rejection rejects Promise.all and
\* runs the catch of getMapIDsCreationArray at once; the last fulfilment
\* lets the handler go on to the transaction.
MapObjectSettled(r, m) ==
    /\ m \in 1..Len(tasks[r])
    /\ tasks[r][m].status = "pending"
    /\ LET made == getMapIdCreationObject(body[r].maps[m], body[r].type, LengthObjectArray,
                       locals[r].difficultiesCreationArray,
                       locals[r].defaultDifficultyObjectsArray,
                       locals[r].modUsesCustomDifficultiesBool,
                       locals[r].modHasSubDifficultiesBool,
                       DefaultDifficultyObjectsArray, TechList, UserIDs)
           answered == tasks[r][m].answered + 1
           settled == [status |-> IF made.threw = "none" THEN "fulfilled" ELSE "rejected",
                       answered |-> answered,
                       threw |-> made.threw, object |-> made.object]
           after == [tasks[r] EXCEPT ![m] =
                        IF answered < Len(made.awaited)
                        THEN [@ EXCEPT !.answered = answered]
                        ELSE settled]
       IN  /\ tasks' = [tasks EXCEPT ![r] = after]
           /\ IF PromiseAllRejected(r) \/ answered < Len(made.awaited)
              THEN UNCHANGED <<pc, res>>
              ELSE IF made.threw # "none"
              THEN IF StatusForMapError(made.threw) # 0
                   THEN /\ res' = [res EXCEPT ![r] =
                               Respond(@, StatusForMapError(made.threw), made.threw, TRUE)]
                        /\ pc' = [pc EXCEPT ![r] = PcAfterMapErrorSent]
                   ELSE /\ res' = [res EXCEPT ![r] = CallNext(@, made.threw)]
                        /\ pc' = [pc EXCEPT ![r] = "done"]
              ELSE /\ res' = res
                   /\ pc' = [pc EXCEPT ![r] =
                         IF \A k \in 1..Len(after) : after[k].status = "fulfilled"
                         THEN "findFirst" ELSE "maps"]
    /\ UNCHANGED <<keyVars, pipelineVars, body, locals, mods>>

\* lines 191-222: findFirst of a mod with the gamebananaModID of the body
MatchingModIndex(gamebananaModID) ==
    FirstIndex(mods, LAMBDA mod : mod.gamebananaModID = gamebananaModID)

MatchingModSought(r) ==
    /\ pc[r] = "findFirst"
    /\ LET k == MatchingModIndex(body[r].gamebananaModID)
       IN  IF k # 0
           THEN /\ res' = [res EXCEPT ![r] =
                       ResponseAfterTransaction(@, locals[r], body[r].type, mods[k], 200)]
                /\ pc' = [pc EXCEPT ![r] = "done"]
           ELSE /\ res' = res
                /\ pc' = [pc EXCEPT ![r] = "create"]
    /\ locals' = [locals EXCEPT ![r].matchingMod = MatchingModIndex(body[r].gamebananaModID)]
    /\ UNCHANGED <<keyVars, pipelineVars, body, tasks, mods>>

\* lines 225-271: the mod is created with its difficulties and maps; the
\* created mods_details has no timeApproved
NextModID == Len(mods) + 1
NextDifficultyID ==
    FirstCustomDifficultyID + Len(Flatten([k \in 1..Len(mods) |-> mods[k].difficulties]))

\* mutant: the parent rows are written first, the child rows by a later write
CreatedMod_ParentsFirst(r) ==
    [id |-> NextModID, gamebananaModID |-> body[r].gamebananaModID, approvedDetails |-> 0,
     difficulties |->
         SelectSeq(CreateDifficultyRows(locals[r].difficultiesCreationArray, NextDifficultyID),
                   LAMBDA row : row.parentDifficultyID = NullID),
     maps |-> [m \in 1..Len(tasks[r]) |-> tasks[r][m].object],
     publisher |-> locals[r].publisherConnectionObject,
     createdBy |-> r]

CreatedMod(r) ==
    [id |-> NextModID, gamebananaModID |-> body[r].gamebananaModID, approvedDetails |-> 0,
     difficulties |-> CreateDifficultyRows(locals[r].difficultiesCreationArray,
                                           NextDifficultyID),
     maps |-> [m \in 1..Len(tasks[r]) |-> tasks[r][m].object],
     publisher |-> locals[r].publisherConnectionObject,
     createdBy |-> r]

\* line 225: the store executes prisma.mods_ids.create, called on the global
\* client, and the mod is written; the handler stays suspended until the
\* reply and the transaction resolve.  A create the client refuses writes
\* nothing and rejects.
ModCreated(r) ==
    /\ pc[r] = "create"
    /\ IF AllNamesDefined(locals[r].difficultiesCreationArray)
       THEN /\ mods' = Append(mods, CreatedMod(r))
            /\ locals' = [locals EXCEPT ![r].mod = NextModID]
            /\ pc' = [pc EXCEPT ![r] = "created"]
            /\ res' = res
       ELSE /\ mods' = mods
            /\ locals' = locals
            /\ pc' = [pc EXCEPT ![r] = "done"]
            /\ res' = [res EXCEPT ![r] = CallNext(@, prismaValidationError)]
    /\ UNCHANGED <<keyVars, pipelineVars, body, tasks>>

\* lines 270-289: the reply of create arrives, the transaction resolves and
\* the handler answers with the mod that create returned
ModAnswered(r) ==
    /\ pc[r] = "created"
    /\ pc' = [pc EXCEPT ![r] = "done"]
    /\ res' = [res EXCEPT ![r] =
           ResponseAfterTransaction(@, locals[r], body[r].type, mods[locals[r].mod], 201)]
    /\ UNCHANGED <<keyVars, pipelineVars, body, locals, tasks, mods>>

\* the difficulties of a request: none, or names in the places of a submission
RequestDifficulties ==
    {NotGiven} \cup
    UNION {{Given(BuildSubmission(place, [i \in 1..w |-> RowName(i)], 1, <<>>)) :
               place \in {pl \in [1..w -> Places] :
                             \A i \in 1..w : pl[i] = "child" =>
                                 (i > 1 /\ pl[i - 1] \in {"parent", "child"})}} :
           w \in 0..MaxTreeNames}

ModTypes == {"Normal", "Collab", "Contest"}

\* the publisherID of a request: a publisher of the store, or of no publisher
PublisherIDsGiven == {1, 99}

\* one request arrives, its publisher given by publisherID; its maps claim
\* the given modDifficulties
InitOneRequest(mapCounts, modDifficulties) ==
    /\ NoPipeline
    /\ mods \in {<<>>, <<ExistingMod(TRUE)>>, <<ExistingMod(FALSE)>>, <<ExistingModWithTree>>}
    /\ \E type \in ModTypes, given \in RequestDifficulties, n \in mapCounts :
          \E md \in [1..n -> modDifficulties], publisherID \in PublisherIDsGiven :
              body = [r \in Reqs |->
                         IF r = 1
                         THEN [NoBody EXCEPT
                                  !.sent = TRUE, !.type = type, !.gamebananaModID = 1,
                                  !.difficulties = given,
                                  !.maps = [m \in 1..n |-> MapObject(md[m])],
                                  !.publisherID = publisherID]
                         ELSE NoBody]
    /\ pc = [r \in Reqs |-> IF r = 1 THEN "start" ELSE "none"]
    /\ locals = [r \in Reqs |-> NoLocals]
    /\ tasks = [r \in Reqs |-> <<>>]
    /\ res = [r \in Reqs |-> NoResponse]

\* a request with up to MaxMaps maps, validated concurrently; each map claims
\* no modDifficulty or a bare name (InitMapDifficulty and InitMapFaults let
\* a map claim pairs)
InitPost ==
    InitOneRequest(0..MaxMaps, {UndefinedValue, StrElem("Easy")})

\* a request with one map that claims any modDifficulty
InitMapDifficulty == InitOneRequest({1}, ModDifficulties)

NextPost ==
    \E r \in Reqs :
        \/ ValidateModPost(r)
        \/ PublisherResolved(r)
        \/ DefaultDifficultiesFound(r)
        \/ MapLengthsFound(r)
        \/ \E m \in 1..MaxMaps : MapObjectSettled(r, m)
        \/ MatchingModSought(r)
        \/ ModCreated(r)
        \/ ModAnswered(r)

SpecPost == InitPost /\ [][NextPost]_vars

SpecMapDifficulty == InitMapDifficulty /\ [][NextPost]_vars

\* the mod types of the store's enumeration mods_details_type
AllModTypes == ModTypes \cup {"Lobby"}

\* one request arrives whose maps may lack a modDifficulty, name a length the
\* store does not have or name a mapper who is no user
InitMapFaults ==
    /\ NoPipeline
    /\ mods = <<>>
    /\ \E type \in AllModTypes, n \in 1..MaxMaps,
          given \in {NotGiven, Given(<<StrElem("Easy")>>), Given(ExampleSubmission)} :
          \E md \in [1..n -> {UndefinedValue, StrElem("Easy"), ArrElem(<<"Medium", "Medium+">>)}],
             length \in [1..n -> {"Short", "Marathon"}], mapper \in [1..n -> {0, 8}] :
              body = [r \in Reqs |->
                         IF r = 1
                         THEN [NoBody EXCEPT
                                  !.sent = TRUE, !.type = type, !.gamebananaModID = 1,
                                  !.difficulties = given,
                                  !.maps = [m \in 1..n |->
                                               [MapObject(md[m]) EXCEPT
                                                   !.length = length[m],
                                                   !.mapperUserID = mapper[m]]],
                                  !.publisherID = 1]
                         ELSE NoBody]
    /\ pc = [r \in Reqs |-> IF r = 1 THEN "start" ELSE "none"]
    /\ locals = [r \in Reqs |-> NoLocals]
    /\ tasks = [r \in Reqs |-> <<>>]
    /\ res = [r \in Reqs |-> NoResponse]

SpecMapFaults == InitMapFaults /\ [][NextPost]_vars

\* every request of Reqs arrives with the same gamebananaModID; the handlers
\* run concurrently, one after the other included
InitSameMod ==
    /\ NoPipeline
    /\ mods \in {<<>>, <<ExistingMod(TRUE)>>, <<ExistingMod(FALSE)>>}
    /\ \E type \in [Reqs -> {"Normal", "Collab"}], n \in [Reqs -> 0..1],
          given \in [Reqs -> {NotGiven, Given(<<StrElem("Easy")>>)}] :
          body = [r \in Reqs |->
                     [NoBody EXCEPT
                         !.sent = TRUE, !.type = type[r], !.gamebananaModID = 1,
                         !.difficulties = given[r],
                         !.maps = [m \in 1..n[r] |-> MapObject(StrElem("Easy"))],
                         !.publisherID = 1]]
    /\ pc = [r \in Reqs |-> "start"]
    /\ locals = [r \in Reqs |-> NoLocals]
    /\ tasks = [r \in Reqs |-> <<>>]
    /\ res = [r \in Reqs |-> NoResponse]

SpecSameMod == InitSameMod /\ [][NextPost]_vars

MaxTechs == 3      \* most tech names in the techAny of a map

\* what a map may list in techAny: the techs of the store and a name the
\* store does not have
TechNamesGiven == {TechList[t].name : t \in 1..Len(TechList)} \cup {"dream hyper"}

\* one request for a Normal mod arrives whose map names no canonical
\* difficulty and lists any techs in techAny, or none
InitTech ==
    /\ NoPipeline
    /\ mods \in {<<>>, <<ExistingMod(TRUE)>>}
    /\ \E techAny \in {UndefinedValue} \cup
                       {ArrElem(a) : a \in UNION {[1..k -> TechNamesGiven] : k \in 0..MaxTechs}} :
          body = [r \in Reqs |->
                     IF r = 1
                     THEN [NoBody EXCEPT
                              !.sent = TRUE, !.type = "Normal", !.gamebananaModID = 1,
                              !.maps = <<[MapObject(UndefinedValue) EXCEPT !.techAny = techAny]>>,
                              !.publisherID = 1]
                     ELSE NoBody]
    /\ pc = [r \in Reqs |-> IF r = 1 THEN "start" ELSE "none"]
    /\ locals = [r \in Reqs |-> NoLocals]
    /\ tasks = [r \in Reqs |-> <<>>]
    /\ res = [r \in Reqs |-> NoResponse]

SpecTech == InitTech /\ [][NextPost]_vars

\* one request arrives with any of the publisher fields; its publisher may
\* have to be looked up at GameBanana
InitPublisher ==
    /\ NoPipeline
    /\ mods \in {<<>>, <<ExistingMod(TRUE)>>}
    /\ \E type \in {"Normal", "Collab"}, given \in {NotGiven, Given(<<StrElem("Easy")>>)},
          n \in 0..1, userID \in {0, 4, 5, 6, 9}, publisherGamebananaID \in {0, 7, 11},
          publisherID \in {0} \cup PublisherIDsGiven,
          publisherName \in {"", "alice", "twin", "ghost"} :
              /\ userID # 0 \/ publisherGamebananaID # 0 \/ publisherID # 0
                     \/ publisherName # ""
              /\ body = [r \in Reqs |->
                         IF r = 1
                         THEN [NoBody EXCEPT
                                  !.sent = TRUE, !.type = type, !.gamebananaModID = 1,
                                  !.difficulties = given,
                                  !.maps = [m \in 1..n |-> MapObject(StrElem("Easy"))],
                                  !.userID = userID,
                                  !.publisherGamebananaID = publisherGamebananaID,
                                  !.publisherID = publisherID,
                                  !.publisherName = publisherName]
                         ELSE NoBody]
    /\ pc = [r \in Reqs |-> IF r = 1 THEN "start" ELSE "none"]
    /\ locals = [r \in Reqs |-> NoLocals]
    /\ tasks = [r \in Reqs |-> <<>>]
    /\ res = [r \in Reqs |-> NoResponse]

NextPublisher ==
    \/ NextPost
    \/ \E r \in Reqs : GamebananaReplied(r)

SpecPublisher == InitPublisher /\ [][NextPublisher]_vars

(***************************************************************************)
(* importPublicKey applied to a key string, and the key put to use.        *)
(***************************************************************************)
InitKey ==
    /\ NoPipeline
    /\ body = [r \in Reqs |-> NoBody]
    /\ pc = [r \in Reqs |-> "none"]
    /\ locals = [r \in Reqs |-> NoLocals]
    /\ tasks = [r \in Reqs |-> <<>>]
    /\ res = [r \in Reqs |-> NoResponse]
    /\ mods = <<>>

\* one more character is typed into the key string
KeyStringExtended ==
    /\ publicKey.state = "notCalled"
    /\ Len(publicKeyString) < MaxKeyChars
    /\ \E c \in KeyChars : publicKeyString' = Append(publicKeyString, c)
    /\ UNCHANGED <<publicKey, pipelineVars, postVars>>

\* importPublicKey(publicKeyString): base64StringToArrayBuffer returns the
\* bytes or throws, and the bytes are a key or are not (no bytes are no key)
ImportPublicKey ==
    /\ publicKey.state = "notCalled"
    /\ \E decodes \in BOOLEAN, parses \in BOOLEAN :
          /\ parses => Len(publicKeyString) > 0
          /\ publicKey' = importPublicKey(decodes, parses)
    /\ UNCHANGED <<publicKeyString, pipelineVars, postVars>>

\* crypto.subtle.sign with the key succeeds when sign is among its usages
SignWithKey ==
    /\ publicKey.state = "imported"
    /\ publicKey.signed = "untried"
    /\ publicKey' = [publicKey EXCEPT !.signed = Outcome("sign" \in publicKey.key.usages)]
    /\ UNCHANGED <<publicKeyString, pipelineVars, postVars>>

\* crypto.subtle.exportKey succeeds when the key is extractable
ExportKey ==
    /\ publicKey.state = "imported"
    /\ publicKey.exported = "untried"
    /\ publicKey' = [publicKey EXCEPT !.exported = Outcome(publicKey.key.extractable)]
    /\ UNCHANGED <<publicKeyString, pipelineVars, postVars>>

\* crypto.subtle.verify with the key succeeds when verify is among its usages
VerifyWithKey ==
    /\ publicKey.state = "imported"
    /\ publicKey.verified = "untried"
    /\ publicKey' = [publicKey EXCEPT !.verified = Outcome("verify" \in publicKey.key.usages)]
    /\ UNCHANGED <<publicKeyString, pipelineVars, postVars>>

NextKey ==
    \/ KeyStringExtended
    \/ ImportPublicKey
    \/ SignWithKey
    \/ ExportKey
    \/ VerifyWithKey

SpecKey == InitKey /\ [][NextKey]_vars

(***************************************************************************)
(* The routes with a :userID or :modID parameter (lines 685-1003,          *)
(* 2220-2299).  router.param runs first; each next() without an error,     *)
(* CallNext(response, "none"), starts the route handler once more.         *)
(***************************************************************************)
storeError == "prisma: the store cannot be reached"

UserRoute == "GET /user/:userID/publisher"

\* lines 2229, 2256: the message for a parameter that is not a number
ParamNotANumber(route) ==
    IF route = UserRoute THEN "userID is not a number" ELSE "modID is not a number"

\* lines 2236, 2290: the message for an id the store does not hold
ParamDoesNotExist(route) ==
    IF route = UserRoute THEN "userID does not exist" ELSE "modID does not exist"

\* lines 2233, 2260: findUnique, the index of the row with the id, 0 for none
ParamRowIndex(route, id) ==
    IF route = UserRoute
    THEN FirstIndex(Users, LAMBDA u : u.id = id)
    ELSE FirstIndex(mods, LAMBDA mod : mod.id = id)

\* lines 2222-2230, 2249-2257: Number(req.params.userID) and isNaN
ParamChecked(r) ==
    /\ pc[r] = "param"
    /\ IF JsNumber(StringValue(body[r].param)).nan
       THEN /\ res' = [res EXCEPT ![r] = Respond(@, 400, ParamNotANumber(body[r].route), FALSE)]
            /\ pc' = [pc EXCEPT ![r] = "paramReturned"]
       ELSE /\ res' = res
            /\ pc' = [pc EXCEPT ![r] = "paramFind"]
    /\ UNCHANGED <<keyVars, pipelineVars, body, locals, tasks, mods>>

\* lines 2233-2243, 2260-2298: the store answers findUnique, or fails
ParamFound(r) ==
    /\ pc[r] = "paramFind"
    /\ pc' = [pc EXCEPT ![r] = "paramReturned"]
    /\ \E fails \in BOOLEAN :
          LET id == JsNumber(StringValue(body[r].param)).num
              k == ParamRowIndex(body[r].route, id)
          IN  IF fails
              THEN /\ res' = [res EXCEPT ![r] = CallNext(@, storeError)]
                   /\ locals' = locals
              ELSE IF k = 0
              THEN /\ res' = [res EXCEPT ![r] =
                                 Respond(@, 404, ParamDoesNotExist(body[r].route), FALSE)]
                   /\ locals' = locals
              ELSE /\ res' = [res EXCEPT ![r] = CallNext(@, "none")]
                   /\ locals' = [locals EXCEPT ![r] =
                         IF body[r].route = UserRoute
                         THEN [@ EXCEPT !.id2 = id, !.handlerRuns = @ + 1]
                         ELSE [@ EXCEPT !.id = id, !.mod = k, !.handlerRuns = @ + 1]]
    /\ UNCHANGED <<keyVars, pipelineVars, body, tasks, mods>>

\* mutant: res.status is read as unset
ResStatusIsFalsy_Unset == TRUE

\* lines 688, 819: res.status is a method of the response, never falsy
ResStatusIsFalsy == FALSE

\* lines 687-692, 818-823: param_userID has returned to the callback of
\* router.param
ParamReturned(r) ==
    /\ pc[r] = "paramReturned"
    /\ IF ResStatusIsFalsy
       THEN /\ res' = [res EXCEPT ![r] = CallNext(@, "none")]
            /\ locals' = [locals EXCEPT ![r].handlerRuns = @ + 1]
       ELSE /\ res' = res
            /\ locals' = locals
    /\ pc' = [pc EXCEPT ![r] =
                 IF locals'[r].handlerRuns = 0 THEN "done"
                 ELSE IF body[r].route = "PATCH /:modID" THEN "patchStart"
                 ELSE "route"]
    /\ UNCHANGED <<keyVars, pipelineVars, body, tasks, mods>>

\* the mods_details the queries include: the approved ones, at most one
Included(mod) == [mod EXCEPT !.approvedDetails = IF @ >= 1 THEN 1 ELSE 0]

\* lines 699-743: the mods with approved details of a publisher of the user
ModsOfUser(userID) ==
    SelectSeq(mods, LAMBDA mod :
        /\ mod.approvedDetails >= 1
        /\ mod.publisher.kind = "connect"
        /\ \E i \in 1..Len(Users) :
              /\ Users[i].id = userID
              /\ \E j \in 1..Len(Users[i].publishers) :
                    Users[i].publishers[j] = mod.publisher.id)

\* lines 696-750 and 827-841: the handlers of the GET routes format the mods
\* and answer with them
ModsGot(r) ==
    /\ pc[r] = "route"
    /\ pc' = [pc EXCEPT ![r] = "done"]
    /\ LET rawMods == IF body[r].route = UserRoute THEN ModsOfUser(locals[r].id2)
                      ELSE <<Included(mods[locals[r].mod])>>
           bad == FirstIndex(rawMods, LAMBDA mod : formatMod(mod).error # "none")
       IN  res' = [res EXCEPT ![r] =
                      IF bad = 0 THEN Respond(@, 200, "formattedMod", FALSE)
                      ELSE CallNext(@, formatMod(rawMods[bad]).error)]
    /\ UNCHANGED <<keyVars, pipelineVars, body, locals, tasks, mods>>

\* lines 854-882: validateModPatch decides on the schema of the body
PatchValidated(r) ==
    /\ pc[r] = "patchStart"
    /\ \E valid \in BOOLEAN :
          /\ body' = [body EXCEPT ![r].valid = valid]
          /\ IF valid
             THEN /\ pc' = [pc EXCEPT ![r] = "patchFind"]
                  /\ res' = res
             ELSE /\ pc' = [pc EXCEPT ![r] = "done"]
                  /\ res' = [res EXCEPT ![r] =
                                Respond(@, 400, "Malformed request body", FALSE)]
    /\ UNCHANGED <<keyVars, pipelineVars, locals, tasks, mods>>

\* lines 885-893: the first other mod with approved details of the
\* gamebananaModID; a gamebananaModID that is undefined filters nothing
OtherModIndex(id, gamebananaModID) ==
    FirstIndex(mods, LAMBDA mod :
        /\ mod.id # id
        /\ mod.approvedDetails >= 1
        /\ gamebananaModID # 0 => mod.gamebananaModID = gamebananaModID)

\* lines 917-923: after res.status(400).json(formattedMatchingMod) there is
\* no return, the handler goes on to resolve the publisher
PcAfterMatchingModSent == "patchPublisher"

\* lines 885-923: the store answers findFirst
PatchMatchingSought(r) ==
    /\ pc[r] = "patchFind"
    /\ LET k == OtherModIndex(locals[r].id, body[r].gamebananaModID)
       IN  /\ locals' = [locals EXCEPT ![r].matchingMod = k]
           /\ IF k = 0
              THEN /\ res' = res
                   /\ pc' = [pc EXCEPT ![r] = "patchPublisher"]
              ELSE IF formatMod(Included(mods[k])).error # "none"
              THEN /\ res' = [res EXCEPT ![r] = CallNext(@, formatMod(Included(mods[k])).error)]
                   /\ pc' = [pc EXCEPT ![r] = "done"]
              ELSE /\ res' = [res EXCEPT ![r] = Respond(@, 400, "formattedMatchingMod", FALSE)]
                   /\ pc' = [pc EXCEPT ![r] = PcAfterMatchingModSent]
    /\ UNCHANGED <<keyVars, pipelineVars, body, tasks, mods>>

\* lines 926-945: getPublisherConnectionObject and getDifficultyArrays.  An
\* answer of getPublisherConnectionObject after a response was sent throws
\* in res.json; its catch (line 1153) returns the error and the handler
\* throws it.  The requests of this flow need no lookup at GameBanana.
PatchPublisherResolved(r) ==
    /\ pc[r] = "patchPublisher"
    /\ LET found == PublisherFromStore(body[r].userID, body[r].publisherGamebananaID,
                                       body[r].publisherID, body[r].publisherName)
       IN  /\ found.outcome # "lookup"
           /\ IF found.outcome = "errorSent"
              THEN /\ res' = [res EXCEPT ![r] =
                                 IF @.responses = 0
                                 THEN Respond(@, found.status, found.json, TRUE)
                                 ELSE CallNext(@, publisherConnectionObjectError(headersSentError))]
                   /\ pc' = [pc EXCEPT ![r] = "done"]
                   /\ locals' = locals
              ELSE IF body[r].difficulties.given
                      /\ getDifficultyArrays(body[r].difficulties.list).threw
              THEN /\ res' = [res EXCEPT ![r] =
                                 CallNext(@, getDifficultyArrays(body[r].difficulties.list).error)]
                   /\ pc' = [pc EXCEPT ![r] = "done"]
                   /\ locals' = locals
              ELSE /\ res' = res
                   /\ pc' = [pc EXCEPT ![r] = "patchUpdate"]
                   /\ locals' = [locals EXCEPT ![r].publisherConnectionObject = found.object]
    /\ UNCHANGED <<keyVars, pipelineVars, body, tasks, mods>>

\* lines 966-1003: prisma.mods_ids.update writes the fields of the body to
\* the mod of req.id, or the store refuses the update; the handler ends
\* without an answer of its own
PatchUpdated(r) ==
    /\ pc[r] = "patchUpdate"
    /\ pc' = [pc EXCEPT ![r] = "done"]
    /\ \E refused \in BOOLEAN :
          IF refused
          THEN /\ res' = [res EXCEPT ![r] = CallNext(@, storeError)]
               /\ UNCHANGED <<locals, mods>>
          ELSE /\ res' = res
               /\ locals' = [locals EXCEPT ![r].updates = @ + 1]
               /\ mods' = [mods EXCEPT ![locals[r].mod] =
                     [@ EXCEPT
                        !.gamebananaModID =
                            IF body[r].gamebananaModID = 0 THEN @ ELSE body[r].gamebananaModID,
                        !.publisher =
                            IF locals[r].publisherConnectionObject = NoConnection THEN @
                            ELSE locals[r].publisherConnectionObject]]
    /\ UNCHANGED <<keyVars, pipelineVars, body, tasks>>

\* a request to a route with a parameter: the id of a user, of a mod, of
\* neither, or a string that is no number; the store holds up to two mods

InitRoutes ==
    /\ NoPipeline
    /\ mods \in {<<>>, <<ExistingMod(TRUE)>>, <<ExistingModWithTree>>}
                \cup {<<ExistingMod(approved), [ExistingModWithTree EXCEPT !.id = 2]>> :
                          approved \in BOOLEAN}
    /\ \E route \in {UserRoute, "GET /:modID", "PATCH /:modID"},
          param \in {"1", "2", "5", "9", "abc"},
          gamebananaModID \in {0, 1, 3}, userID \in {0, 5, 9}, publisherID \in {0, 1} :
          /\ route # "PATCH /:modID" => (gamebananaModID = 0 /\ userID = 0 /\ publisherID = 0)
          /\ body = [r \in Reqs |->
                     IF r = 1
                     THEN [NoBody EXCEPT !.sent = TRUE, !.route = route, !.param = param,
                                         !.gamebananaModID = gamebananaModID,
                                         !.userID = userID, !.publisherID = publisherID]
                     ELSE NoBody]
    /\ pc = [r \in Reqs |-> IF r = 1 THEN "param" ELSE "none"]
    /\ locals = [r \in Reqs |-> NoLocals]
    /\ tasks = [r \in Reqs |-> <<>>]
    /\ res = [r \in Reqs |-> NoResponse]

NextRoutes ==
    \E r \in Reqs :
        \/ ParamChecked(r)
        \/ ParamFound(r)
        \/ ParamReturned(r)
        \/ ModsGot(r)
        \/ PatchValidated(r)
        \/ PatchMatchingSought(r)
        \/ PatchPublisherResolved(r)
        \/ PatchUpdated(r)

SpecRoutes == InitRoutes /\ [][NextRoutes]_vars

(***************************************************************************)
(* Properties of the difficulty pipeline.                                  *)
(***************************************************************************)
\* a submission of the documented shape: every name is a non-blank string
\* and every inner list is [parent, child1, ...] with at least one child
ValidSubmission(submission) ==
    \A i \in 1..Len(submission) :
        IF submission[i].type = "string"
        THEN submission[i].str # ""
        ELSE /\ Len(submission[i].arr) >= 2
             /\ \A j \in 1..Len(submission[i].arr) : submission[i].arr[j] # ""

\* C1: round trip - for every valid submission, parsing it with
\* getDifficultyArrays, storing the rows and rebuilding them with
\* getSortedDifficultyNames returns the submission itself (same names, same
\* nesting, same order), whatever ids and row order the store chose.
C1_RoundTrip ==
    (phase = "sorted" /\ ValidSubmission(difficultyNames))
        => formattedArray = [threw |-> "none", value |-> difficultyNames]

C1_Witness ==
    /\ phase = "sorted"
    /\ ValidSubmission(difficultyNames)
    /\ Len(difficultyNames) = 2
    /\ \E i \in 1..2 : /\ difficultyNames[i].type = "array"
                       /\ Len(difficultyNames[i].arr) = 3
                       /\ difficultyNames[i].arr[2] # difficultyNames[i].arr[3]
    /\ difficulties[1].parentDifficultyID # NullID
    /\ formattedArray.value = difficultyNames

\* the rows that reference the parent row with id p
ChildrenOf(rows, p) == {i \in 1..Len(rows) : rows[i].parentDifficultyID = p}
ParentIndexes(rows) == {i \in 1..Len(rows) : rows[i].parentDifficultyID = NullID}

\* some child group of M rows under a parent row has no row with order k
ChildOrderGap(rows) ==
    \E p \in ParentIndexes(rows) :
        LET group == ChildrenOf(rows, rows[p].id)
        IN  /\ group # {}
            /\ \E k \in 1..Cardinality(group) : \A i \in group : rows[i].order # k

\* among the N rows with a null parent some order k in 1..N is missing
ParentOrderGap(rows) ==
    \E k \in 1..Cardinality(ParentIndexes(rows)) :
        \A i \in ParentIndexes(rows) : rows[i].order # k

\* C2: getSortedDifficultyNames throws a non-contiguous-order error whenever
\* a child group of M rows under some parent has no row with order k for
\* some k in 1..M.
C2_ChildGapThrows ==
    (phase = "sorted" /\ ChildOrderGap(difficulties))
        => formattedArray.threw # "none"

\* C3: getSortedDifficultyNames throws a non-contiguous-order error whenever
\* some order k in 1..N has no row among the N rows with a null parent; it
\* never returns a result then.
C3_ParentGapThrows ==
    (phase = "sorted" /\ ParentOrderGap(difficulties))
        => formattedArray.threw \in {"parentOrdersNotContinuous", "childOrdersNotContinuous"}

\* three parents with the orders 1, 3, 3 and non-blank names: order 2 is missing
C3_Witness ==
    /\ phase = "sorted"
    /\ Len(difficulties) = 3
    /\ \A i \in 1..3 : difficulties[i].parentDifficultyID = NullID /\ difficulties[i].name # ""
    /\ difficulties[1].order = 1 /\ difficulties[2].order = 3 /\ difficulties[3].order = 3
    /\ formattedArray.threw = "parentOrdersNotContinuous"

\* the submission is a list of names and lists of names
NamesAndNameLists(submission) ==
    \A i \in 1..Len(submission) : submission[i].type \in {"string", "array"}

\* C9: getDifficultyArrays assigns orders by position - the element at
\* 0-based outer index i yields a parent record with order i+1, the name at
\* 0-based index j >= 1 of an inner list yields a child record with order j
\* under that list's parent, and no other records are produced.
C9_OrdersByPosition ==
    (phase # "submitted" /\ NamesAndNameLists(difficultyNames)) =>
        LET data == difficultyArrays.difficultiesDataArray
        IN  /\ Len(data) = Len(difficultyNames)
            /\ \A i \in 1..Len(difficultyNames) :
                  LET elem == difficultyNames[i]
                      children == data[i].other_difficulties.create
                  IN  /\ data[i].order = i
                      /\ elem.type = "string" =>
                            /\ data[i].name = elem.str
                            /\ children = <<>>
                      /\ elem.type = "array" =>
                            /\ Len(elem.arr) >= 1 => data[i].name = elem.arr[1]
                            /\ Len(children) = (IF Len(elem.arr) = 0 THEN 0 ELSE Len(elem.arr) - 1)
                            /\ \A j \in 1..Len(children) :
                                  /\ children[j].order = j
                                  /\ children[j].name = elem.arr[j + 1]

C9_Witness ==
    /\ phase = "parsed"
    /\ Len(difficultyNames) = 2
    /\ difficultyNames[1].type = "string"
    /\ difficultyNames[2].type = "array"
    /\ Len(difficultyNames[2].arr) = 3
    /\ difficultyArrays.difficultiesDataArray[2].order = 2
    /\ difficultyArrays.difficultiesDataArray[2].other_difficulties.create[2].order = 2

\* the names of a submission in submission order, a parent before its children
NamesInSubmissionOrder(submission) ==
    Flatten([i \in 1..Len(submission) |->
        IF submission[i].type = "string" THEN <<submission[i].str>>
        ELSE submission[i].arr])

\* C10: the flat name list returned by getDifficultyArrays holds every name
\* of the submission in submission order with each parent name before its
\* child names; for ["Easy", ["Medium", "Medium+"], "Hard"] it is
\* ["Easy", "Medium", "Medium+", "Hard"].
C10_FlatNamesInOrder ==
    (phase # "submitted" /\ ValidSubmission(difficultyNames))
        => difficultyArrays.difficultyNamesArray = NamesInSubmissionOrder(difficultyNames)

(***************************************************************************)
(* Properties of the map difficulty validation and of POST /mods.          *)
(***************************************************************************)
MapSettled(r, m) ==
    /\ m \in 1..Len(tasks[r])
    /\ tasks[r][m].status \in {"fulfilled", "rejected"}

RejectedAsInvalidMapDifficulty(r, m) ==
    /\ tasks[r][m].status = "rejected"
    /\ tasks[r][m].threw = invalidMapDifficultyErrorMessage

\* the tree a request configures: its own difficulties, else the default tree
TreeHasParent(r, name) ==
    IF body[r].difficulties.given
    THEN \E i \in 1..Len(body[r].difficulties.list) :
            LET e == body[r].difficulties.list[i]
            IN  \/ e.type = "string" /\ e.str = name
                \/ e.type = "array" /\ Len(e.arr) >= 1 /\ e.arr[1] = name
    ELSE \E i \in 1..Len(DefaultDifficultyObjectsArray) :
            DefaultDifficultyObjectsArray[i].name = name

TreeHasPair(r, parent, child) ==
    IF body[r].difficulties.given
    THEN \E i \in 1..Len(body[r].difficulties.list) :
            LET e == body[r].difficulties.list[i]
            IN  /\ e.type = "array" /\ Len(e.arr) >= 2 /\ e.arr[1] = parent
                /\ \E j \in 2..Len(e.arr) : e.arr[j] = child
    ELSE \E i \in 1..Len(DefaultDifficultyObjectsArray) :
            LET d == DefaultDifficultyObjectsArray[i]
            IN  /\ d.name = parent
                /\ \E j \in 1..Len(d.other_difficulties) : d.other_difficulties[j].name = child

TreeHasSubDifficulties(r) ==
    IF body[r].difficulties.given
    THEN \E i \in 1..Len(body[r].difficulties.list) :
            /\ body[r].difficulties.list[i].type = "array"
            /\ Len(body[r].difficulties.list[i].arr) >= 2
    ELSE \E i \in 1..Len(DefaultDifficultyObjectsArray) :
            DefaultDifficultyObjectsArray[i].other_difficulties # <<>>

\* the claimed modDifficulty names a difficulty or a pair the tree lacks
AbsentFromTree(r, modDifficulty) ==
    \/ /\ modDifficulty.type = "string" /\ modDifficulty.str # ""
       /\ ~TreeHasParent(r, modDifficulty.str)
    \/ /\ modDifficulty.type = "array" /\ Len(modDifficulty.arr) = 2
       /\ ~TreeHasPair(r, modDifficulty.arr[1], modDifficulty.arr[2])

\* C4: for a map of a non-Normal mod, handleNonNormalMods rejects with the
\* invalid-map-difficulty error whenever the claimed modDifficulty names a
\* difficulty or a [parent, child] pair that is absent from the mod's tree.
\* Stated for a mod that configures a non-empty tree of its own, the case in
\* which the search of lines 1800-1822 runs.
C4_AbsentDifficultyRejected ==
    \A r \in Reqs : \A m \in 1..Len(tasks[r]) :
        (/\ MapSettled(r, m)
         /\ body[r].type # "Normal"
         /\ body[r].difficulties.given
         /\ body[r].difficulties.list # <<>>
         /\ AbsentFromTree(r, body[r].maps[m].modDifficulty))
            => RejectedAsInvalidMapDifficulty(r, m)

\* C5: for a map of a non-Normal mod whose configured tree has
\* sub-difficulties, handleNonNormalMods rejects with the
\* invalid-map-difficulty error whenever the claimed modDifficulty is a bare
\* name.
C5_BareNameRejected ==
    \A r \in Reqs : \A m \in 1..Len(tasks[r]) :
        (/\ MapSettled(r, m)
         /\ body[r].type # "Normal"
         /\ TreeHasSubDifficulties(r)
         /\ body[r].maps[m].modDifficulty.type = "string")
            => RejectedAsInvalidMapDifficulty(r, m)

\* a custom tree without sub-difficulties: the request gives difficulties
\* and none of them has a child
CustomTreeWithoutSubDifficulties(r) ==
    /\ body[r].difficulties.given
    /\ ~TreeHasSubDifficulties(r)

\* C6: for a map of a non-Normal mod whose custom tree has no
\* sub-difficulties, handleNonNormalMods rejects with the
\* invalid-map-difficulty error whenever the claimed modDifficulty is a
\* [parent, child] pair (any array) rather than a bare name.
C6_PairRejected ==
    \A r \in Reqs : \A m \in 1..Len(tasks[r]) :
        (/\ MapSettled(r, m)
         /\ body[r].type # "Normal"
         /\ CustomTreeWithoutSubDifficulties(r)
         /\ body[r].maps[m].modDifficulty.type = "array")
            => RejectedAsInvalidMapDifficulty(r, m)

\* the mods a request created
CreatedBy(r) == {k \in 1..Len(mods) : mods[k].createdBy = r}

AllMapsValidated(r) ==
    /\ Len(tasks[r]) = Len(body[r].maps)
    /\ \A m \in 1..Len(tasks[r]) : tasks[r][m].status = "fulfilled"

\* C7: in POST /mods the check of every submitted map runs before any write -
\* the handler reaches the transaction, and a mod of the request exists, only
\* when the validation of all its maps has finished without error; when the
\* validation of a map failed the request creates nothing.
C7_ValidationBeforeCreate ==
    \A r \in Reqs :
        /\ (pc[r] \in {"findFirst", "create", "created"} \/ CreatedBy(r) # {}) => AllMapsValidated(r)
        /\ (\E m \in 1..Len(tasks[r]) : tasks[r][m].status = "rejected")
               => (CreatedBy(r) = {} /\ pc[r] = "done")

C7_Witness ==
    /\ CreatedBy(1) # {}
    /\ body[1].type = "Collab"
    /\ Len(body[1].maps) = 2
    /\ AllMapsValidated(1)
    /\ pc[1] = "done"

\* the id of the child of the default tree a pair names, 0 when there is none
DefaultChildID(parent, child) ==
    LET hits == {d.id : d \in UNION {
                    {c \in {DefaultDifficultyObjectsArray[i].other_difficulties[j] :
                               j \in 1..Len(DefaultDifficultyObjectsArray[i].other_difficulties)} :
                        /\ DefaultDifficultyObjectsArray[i].name = parent
                        /\ c.name = child} :
                    i \in 1..Len(DefaultDifficultyObjectsArray)}}
    IN  IF hits = {} THEN 0 ELSE CHOOSE id \in hits : TRUE

\* C8: when a POST /mods request for a non-Normal mod supplies no custom
\* difficulties, a [parent, child] pair present in the default tree is
\* accepted and the map is connected to that child difficulty.
C8_DefaultPairAccepted ==
    \A r \in Reqs : \A m \in 1..Len(tasks[r]) :
        LET md == body[r].maps[m].modDifficulty
        IN  (/\ MapSettled(r, m)
             /\ body[r].type # "Normal"
             /\ ~body[r].difficulties.given
             /\ md.type = "array" /\ Len(md.arr) = 2
             /\ TreeHasPair(r, md.arr[1], md.arr[2]))
                => /\ tasks[r][m].status = "fulfilled"
                   /\ tasks[r][m].object.modDifficultyID = DefaultChildID(md.arr[1], md.arr[2])

(***************************************************************************)
(* Further properties of getDifficultyArrays.                              *)
(***************************************************************************)
SomeParentHasChildRecord(difficultiesDataArray) ==
    \E i \in 1..Len(difficultiesDataArray) :
        difficultiesDataArray[i].other_difficulties.create # <<>>

\* C11: the has-sub-difficulties flag returned by getDifficultyArrays is true
\* if and only if at least one parent of the produced creation list has at
\* least one child record.
C11_FlagIffChildRecord ==
    phase \in {"parsed", "stored", "sorted"} =>
        (difficultyArrays.modHasSubDifficultiesBool
            <=> SomeParentHasChildRecord(difficultyArrays.difficultiesDataArray))

(***************************************************************************)
(* Further properties of getSortedDifficultyNames.                         *)
(***************************************************************************)
\* the orders of the rows in group are exactly 1..(number of rows in group)
OrdersContiguous(rows, group) ==
    /\ \A i \in group : rows[i].order \in 1..Cardinality(group)
    /\ \A i, j \in group : rows[i].order = rows[j].order => i = j

\* contiguous orders among the parent rows and among the rows that reference
\* each parent row
ContiguousRows(rows) ==
    /\ OrdersContiguous(rows, ParentIndexes(rows))
    /\ \A p \in ParentIndexes(rows) : OrdersContiguous(rows, ChildrenOf(rows, rows[p].id))

\* the names of the rows of group in ascending order
NamesAscending(rows, group) ==
    [k \in 1..Cardinality(group) |-> rows[CHOOSE i \in group : rows[i].order = k].name]

\* one element per parent row in ascending parent order: the bare name, or
\* the parent name followed by the names of the rows that reference it
ExpectedFormattedArray(rows) ==
    [k \in 1..Cardinality(ParentIndexes(rows)) |->
        LET p == CHOOSE i \in ParentIndexes(rows) : rows[i].order = k
            group == ChildrenOf(rows, rows[p].id)
        IN  IF group = {} THEN StrElem(rows[p].name)
            ELSE ArrElem(<<rows[p].name>> \o NamesAscending(rows, group))]

\* C12: for a row set with contiguous orders getSortedDifficultyNames returns
\* one element per parent row in ascending parent order - the bare parent
\* name when no row references that parent, and otherwise the list
\* [parentName, children in ascending child order] holding exactly the rows
\* that reference that parent.
C12_SortedByOrder ==
    (phase = "sorted" /\ ContiguousRows(difficulties))
        => formattedArray = [threw |-> "none", value |-> ExpectedFormattedArray(difficulties)]

(***************************************************************************)
(* Properties of the stored difficulty trees.                              *)
(***************************************************************************)
\* parent rows carry exactly the orders 1..N, the rows under each parent
\* exactly 1..M, and every other row references a parent row of the tree
TreeOrdersContiguous(rows) ==
    /\ OrdersContiguous(rows, ParentIndexes(rows))
    /\ \A p \in ParentIndexes(rows) : OrdersContiguous(rows, ChildrenOf(rows, rows[p].id))
    /\ \A i \in 1..Len(rows) :
           rows[i].parentDifficultyID # NullID =>
               \E p \in ParentIndexes(rows) : rows[p].id = rows[i].parentDifficultyID
    /\ \A i, j \in 1..Len(rows) : rows[i].id = rows[j].id => i = j

NumberOfNames(submission) ==
    Len(Flatten([i \in 1..Len(submission) |->
        IF submission[i].type = "string" THEN <<submission[i].str>>
        ELSE submission[i].arr]))

\* rows holds the whole submitted tree and nothing else
WholeSubmittedTree(rows, given) ==
    IF ~given.given THEN rows = <<>>
    ELSE /\ Len(rows) = NumberOfNames(given.list)
         /\ \A i \in 1..Len(given.list) :
               LET elem == given.list[i]
               IN  \E p \in ParentIndexes(rows) :
                      /\ rows[p].order = i
                      /\ rows[p].name = (IF elem.type = "string" THEN elem.str
                                         ELSE ElementAt(elem.arr, 0))
                      /\ elem.type = "array" =>
                            \A j \in 2..Len(elem.arr) :
                                \E c \in ChildrenOf(rows, rows[p].id) :
                                    rows[c].order = j - 1 /\ rows[c].name = elem.arr[j]

\* C13: in every state reached by POST /mods requests, every mod of the store
\* has a difficulty tree whose parent rows carry exactly the orders 1..N and
\* whose child rows under each parent carry exactly the orders 1..M, and a
\* mod a request created holds the whole difficulty tree of that request.
C13_StoredTreesContiguous ==
    \A k \in 1..Len(mods) :
        /\ TreeOrdersContiguous(mods[k].difficulties)
        /\ mods[k].createdBy # 0 =>
               WholeSubmittedTree(mods[k].difficulties, body[mods[k].createdBy].difficulties)
        /\ \A l \in 1..Len(mods) : \A i \in 1..Len(mods[k].difficulties) :
               \A j \in 1..Len(mods[l].difficulties) :
                   mods[k].difficulties[i].id = mods[l].difficulties[j].id => (k = l /\ i = j)

\* a second mod with one parent and its two children, stored next to a mod
\* that has a tree of its own
C13_Witness ==
    /\ Len(mods) = 2
    /\ mods[1] = ExistingModWithTree
    /\ mods[2].createdBy = 1
    /\ body[1].difficulties = Given(<<ArrElem(<<"Easy", "Medium", "Hard">>)>>)
    /\ Len(mods[2].difficulties) = 3
    /\ ChildrenOf(mods[2].difficulties, mods[2].difficulties[1].id) = {2, 3}

(***************************************************************************)
(* Further properties of the map difficulty validation.                    *)
(***************************************************************************)
\* the parent named name has at least one child in the tree of request r
ParentHasChildren(r, name) ==
    IF body[r].difficulties.given
    THEN \E i \in 1..Len(body[r].difficulties.list) :
            LET e == body[r].difficulties.list[i]
            IN  e.type = "array" /\ Len(e.arr) >= 2 /\ e.arr[1] = name
    ELSE \E i \in 1..Len(DefaultDifficultyObjectsArray) :
            /\ DefaultDifficultyObjectsArray[i].name = name
            /\ DefaultDifficultyObjectsArray[i].other_difficulties # <<>>

\* the claimed modDifficulty names a leaf of the tree of request r
NamesLeaf(r, modDifficulty) ==
    \/ /\ modDifficulty.type = "string"
       /\ TreeHasParent(r, modDifficulty.str)
       /\ ~ParentHasChildren(r, modDifficulty.str)
    \/ /\ modDifficulty.type = "array" /\ Len(modDifficulty.arr) = 2
       /\ TreeHasPair(r, modDifficulty.arr[1], modDifficulty.arr[2])

\* C14: a difficulty that has children is never accepted on its own as a
\* map's modDifficulty - the validation of a map of a non-Normal mod passes
\* only when the claim names a leaf: a parent without children, or a
\* [parent, child] pair whose child is an existing child of that parent.
\* Stated for the trees in which some difficulty has children.
C14_OnlyLeavesAccepted ==
    \A r \in Reqs : \A m \in 1..Len(tasks[r]) :
        (/\ body[r].type # "Normal"
         /\ TreeHasSubDifficulties(r)
         /\ tasks[r][m].status = "fulfilled")
            => NamesLeaf(r, body[r].maps[m].modDifficulty)

(***************************************************************************)
(* Properties of the publisher resolution.                                 *)
(***************************************************************************)
\* C15: while one request is handled the GameBanana lookup API is called at
\* most once - either the id-to-name or the name-to-id lookup, never both
\* and never again, also when the call fails.
C15_AtMostOneLookup ==
    \A r \in Reqs : locals[r].apiCalls <= 1

\* the one call was made, failed, and the request has ended with next(error)
C15_Witness ==
    /\ pc[1] = "done"
    /\ locals[1].lookup = "byName"
    /\ locals[1].apiCalls = 1
    /\ locals[1].apiReply = Unreachable
    /\ res[1].nextCalls = 1

\* a value that is no number and no numeral
NonNumeric(value) ==
    \/ value.type \in {"undefined", "null", "boolean"}
    \/ /\ value.type = "string"
       /\ \A n \in 0..MaxApiNumber : ToString(n) # value.str

\* the lookup of request r was not reached, answered with another status
\* than 200, or answered that the member does not exist
LookupFailedFor(r) ==
    LET reply == locals[r].apiReply
    IN  /\ locals[r].lookup # "none"
        /\ reply # NoReply
        /\ \/ ~reply.reached
           \/ reply.status # 200
           \/ /\ locals[r].lookup = "byId"
              /\ reply.data \in {StringValue("false"), BooleanValue(FALSE)}
           \/ /\ locals[r].lookup = "byName"
              /\ NonNumeric(reply.data)

\* C16: when the publisher has to be resolved through the lookup API and the
\* lookup is unreachable, answers with a status other than 200, or answers
\* with the not-found value ("false" for a name, a non-numeric value for an
\* id), the POST /mods request is rejected, by an error response or by the
\* error handler, and no mod, difficulty, map or publisher is written.
C16_FailedLookupRejects ==
    \A r \in Reqs :
        LookupFailedFor(r) =>
            /\ pc[r] = "done"
            /\ \/ res[r].errorSent /\ res[r].status >= 400 /\ res[r].nextCalls = 0
               \/ res[r].nextCalls = 1 /\ res[r].responses = 0
            /\ CreatedBy(r) = {}

\* C17: for every key string, a key that importPublicKey produced is in spki
\* format, for RSA-PSS with SHA-256, not extractable and usable for verify
\* only; signing with it and exporting it never succeed.
C17_KeyVerifyOnly ==
    publicKey.state = "imported" =>
        /\ publicKey.key = [format |-> "spki", name |-> "RSA-PSS", hash |-> "SHA-256", extractable |-> FALSE, usages |-> {"verify"}]
        /\ publicKey.signed # "done"
        /\ publicKey.exported # "done"

\* a key was imported from a key string of full length; signing and
\* exporting were refused and verifying went through
C17_Witness ==
    /\ Len(publicKeyString) = MaxKeyChars
    /\ publicKey.state = "imported"
    /\ publicKey.signed = "refused"
    /\ publicKey.exported = "refused"
    /\ publicKey.verified = "done"

\* C18: for every list of names and lists of names - empty and one-element
\* inner lists, blank names and duplicate sibling names included -
\* getDifficultyArrays returns the triple and not an error, with one creation
\* record per element; an empty inner list gives a parent record whose name
\* is undefined and which has no child records.
C18_NoErrorOnMalformedInput ==
    (phase # "submitted" /\ NamesAndNameLists(difficultyNames)) =>
        /\ ~difficultyArrays.threw
        /\ Len(difficultyArrays.difficultiesDataArray) = Len(difficultyNames)
        /\ \A i \in 1..Len(difficultyNames) :
              difficultyNames[i] = ArrElem(<<>>) =>
                 /\ difficultyArrays.difficultiesDataArray[i].name = UndefinedName
                 /\ difficultyArrays.difficultiesDataArray[i].other_difficulties.create = <<>>

\* [[], ["Easy", "", ""], ["Medium"]] was parsed: an empty inner list, a blank name
\* twice among siblings and a one-element inner list
C18_Witness ==
    /\ phase = "parsed"
    /\ difficultyNames = <<ArrElem(<<>>), ArrElem(<<"Easy", "", "">>), ArrElem(<<"Medium">>)>>
    /\ ~difficultyArrays.threw
    /\ difficultyArrays.difficultiesDataArray[1].name = UndefinedName
    /\ difficultyArrays.difficultyNamesArray = <<UndefinedName, "", "", "Easy", "Medium">>

\* an element that is null makes getDifficultyArrays return the caught error
NullElementReported ==
    /\ phase = "parsed"
    /\ ~NamesAndNameLists(difficultyNames)
    /\ difficultyArrays.threw

(***************************************************************************)
(* Maps without a modDifficulty.                                           *)
(***************************************************************************)
\* the map has a length of the store and no mapper, or a mapper who is a user
OtherFieldsValid(mapObject) ==
    /\ \E i \in 1..Len(LengthObjectArray) : LengthObjectArray[i].name = mapObject.length
    /\ mapObject.mapperUserID \in {0} \cup UserIDs

LacksModDifficulty(r, m) ==
    /\ body[r].type # "Normal"
    /\ body[r].maps[m].modDifficulty = UndefinedValue

\* a map of a Normal mod is not rejected for its modDifficulty and receives
\* chapter and side, and no difficulty, when it is accepted
NormalMapsUnchecked(r, m) ==
    body[r].type = "Normal" =>
        /\ tasks[r][m].threw # invalidMapDifficultyErrorMessage
        /\ OtherFieldsValid(body[r].maps[m]) => tasks[r][m].status = "fulfilled"
        /\ tasks[r][m].status = "fulfilled" =>
              /\ tasks[r][m].object.chapterAndSide
              /\ tasks[r][m].object.modDifficultyID = NoDifficultyConnected

\* the errors the settled maps of a request were rejected with
RejectionErrors(r) ==
    {tasks[r][m].threw : m \in {k \in 1..Len(tasks[r]) : tasks[r][k].status = "rejected"}}

\* C19 as stated: every map of a non-Normal mod that carries no modDifficulty
\* is rejected with the invalid-map-difficulty error and the request is
\* answered with status 400 and writes nothing; maps of a Normal mod are not
\* checked for modDifficulty and receive chapter and side.
C19_MissingModDifficultyIs400 ==
    \A r \in Reqs : \A m \in 1..Len(tasks[r]) :
        MapSettled(r, m) =>
            /\ LacksModDifficulty(r, m) =>
                  /\ RejectedAsInvalidMapDifficulty(r, m)
                  /\ res[r].status = 400
                  /\ res[r].json = invalidMapDifficultyErrorMessage
                  /\ CreatedBy(r) = {}
            /\ NormalMapsUnchecked(r, m)

\* C19, amended: a map of a non-Normal mod that carries no modDifficulty is
\* never accepted and its request writes nothing; the map is rejected with
\* the invalid-map-difficulty error when its length and mapper are valid,
\* and the request is answered with status 400 and that error when no map of
\* it was rejected with another error.  Maps of a Normal mod are not checked
\* for modDifficulty and receive chapter and side.
C19_MissingModDifficultyRejected ==
    \A r \in Reqs : \A m \in 1..Len(tasks[r]) :
        MapSettled(r, m) =>
            /\ LacksModDifficulty(r, m) =>
                  /\ tasks[r][m].status = "rejected"
                  /\ CreatedBy(r) = {}
                  /\ pc[r] = "done"
                  /\ OtherFieldsValid(body[r].maps[m]) => RejectedAsInvalidMapDifficulty(r, m)
                  /\ RejectionErrors(r) = {invalidMapDifficultyErrorMessage} =>
                        /\ res[r].status = 400
                        /\ res[r].json = invalidMapDifficultyErrorMessage
                        /\ res[r].errorSent
                        /\ res[r].nextCalls = 0
            /\ NormalMapsUnchecked(r, m)

\* a Lobby mod with two maps: the first was accepted, the second carries no
\* modDifficulty and was rejected, and the request was answered with 400
C19_Witness ==
    /\ body[1].type = "Lobby"
    /\ Len(tasks[1]) = 2
    /\ tasks[1][1].status = "fulfilled"
    /\ LacksModDifficulty(1, 2)
    /\ RejectedAsInvalidMapDifficulty(1, 2)
    /\ res[1].status = 400
    /\ res[1].json = invalidMapDifficultyErrorMessage
    /\ CreatedBy(1) = {}
    /\ pc[1] = "done"

(***************************************************************************)
(* getSortedDifficultyNames and the storage order of the rows.             *)
(***************************************************************************)
\* the orders of the rows of every sibling group, the rows that share a
\* parentDifficultyID, are 1..M without repetition
UniqueContiguousOrders(rows) ==
    \A i \in 1..Len(rows) :
        OrdersContiguous(rows, ChildrenOf(rows, rows[i].parentDifficultyID))

\* the orderings of n rows
Orderings(n) == {f \in [1..n -> 1..n] : \A i, j \in 1..n : f[i] = f[j] => i = j}

Permuted(rows, f) == [i \in 1..Len(rows) |-> rows[f[i]]]

\* C20: for a row set whose orders are unique and contiguous within each
\* sibling group, getSortedDifficultyNames gives for every permutation of
\* the rows what it gives for the rows as stored.
C20_PermutationInvariant ==
    (phase = "sorted" /\ UniqueContiguousOrders(difficulties)) =>
        \A f \in Orderings(Len(difficulties)) :
            getSortedDifficultyNames(Permuted(difficulties, f)) = formattedArray

\* three rows, a parent and its two children stored after it in descending
\* order, were formatted; some permutation of them is ascending
C20_Witness ==
    /\ phase = "sorted"
    /\ Len(difficulties) = 3
    /\ UniqueContiguousOrders(difficulties)
    /\ difficulties[1].parentDifficultyID = NullID
    /\ difficulties[2].parentDifficultyID = 1 /\ difficulties[2].order = 2
    /\ difficulties[3].parentDifficultyID = 1 /\ difficulties[3].order = 1
    /\ formattedArray = [threw |-> "none", value |-> <<ArrElem(<<"Easy", "Hard", "Medium">>)>>]

(***************************************************************************)
(* Properties of the routes with a parameter.                              *)
(***************************************************************************)
\* the callback of router.param has returned and the route handler, if it
\* was started, has not yet answered
ParamPhaseOver(r) ==
    \/ pc[r] \in {"route", "patchStart"}
    \/ pc[r] = "done" /\ locals[r].handlerRuns = 0

InRouteHandler(r) == pc[r] \in {"route", "patchStart", "patchFind", "patchPublisher", "patchUpdate"}

\* C21: on the routes with a :userID or :modID parameter the route handler
\* runs only after the parameter was checked - a parameter that is no number
\* is answered with 400 and an unknown id with 404, both without a call of
\* next; for an id of the store req.id2 or req.id is set and next is called
\* exactly once; next is never called twice nor together with a response.
C21_ParamCheckedBeforeHandler ==
    \A r \in Reqs :
        LET n == JsNumber(StringValue(body[r].param))
            known == ~n.nan /\ ParamRowIndex(body[r].route, n.num) # 0
        IN  /\ InRouteHandler(r) =>
                  /\ known
                  /\ locals[r].handlerRuns = 1
                  /\ IF body[r].route = UserRoute THEN locals[r].id2 = n.num
                     ELSE locals[r].id = n.num /\ mods[locals[r].mod].id = n.num
            /\ (body[r].route # "none" /\ ParamPhaseOver(r)) =>
                  /\ res[r].nextCalls <= 1
                  /\ res[r].responses + res[r].nextCalls = 1
                  /\ n.nan => (res[r].status = 400 /\ res[r].nextCalls = 0)
                  /\ (~n.nan /\ ~known /\ res[r].nextError = "none") =>
                         (res[r].status = 404 /\ res[r].nextCalls = 0)
                  /\ (known /\ res[r].nextError = "none") =>
                         (res[r].nextCalls = 1 /\ res[r].responses = 0 /\ InRouteHandler(r))

\* GET /:modID with the id of a stored mod: next was called once and the
\* handler is about to run with req.id and req.mod set
C21_Witness ==
    /\ body[1].route = "GET /:modID"
    /\ body[1].param = "1"
    /\ pc[1] = "route"
    /\ locals[1].id = 1
    /\ locals[1].mod = 1
    /\ res[1].nextCalls = 1
    /\ res[1].responses = 0

\* C28: a PATCH /mods/:modID request whose gamebananaModID belongs to a
\* different mod is answered with status 400 and the matching mod and then
\* stops - it sends nothing more, calls no error handler and does not
\* update the store.
C28_MatchingModStopsPatch ==
    \A r \in Reqs :
        (/\ body[r].route = "PATCH /:modID"
         /\ body[r].gamebananaModID # 0
         /\ locals[r].matchingMod # 0
         /\ res[r].json = "formattedMatchingMod") =>
            /\ res[r].status = 400
            /\ res[r].responses = 1
            /\ res[r].nextCalls = 1
            /\ locals[r].updates = 0

(***************************************************************************)
(* Properties of the outcome of POST /mods.                                *)
(***************************************************************************)
\* the request passed validateModPost, resolved its publisher, had all its
\* maps accepted and found no mod with its gamebananaModID
PassedAllChecks(r) ==
    /\ pc[r] = "done"
    /\ body[r].valid
    /\ locals[r].publisherConnectionObject # NoConnection
    /\ AllMapsValidated(r)
    /\ \A k \in 1..Len(mods) :
          mods[k].gamebananaModID = body[r].gamebananaModID => mods[k].createdBy = r

\* C22: a POST /mods request that passes body validation, publisher
\* resolution and map validation while no mod has its gamebananaModID
\* creates the mod and ends with status 201 and the formatted mod.
C22_CreatedModAnswered201 ==
    \A r \in Reqs :
        PassedAllChecks(r) =>
            /\ CreatedBy(r) # {}
            /\ res[r].status = 201
            /\ res[r].json = "formattedMod"
            /\ res[r].nextCalls = 0

EndedInError(r) ==
    /\ pc[r] = "done"
    /\ res[r].status >= 400 \/ res[r].nextCalls > 0

\* C23: a POST /mods request that ends in an error status or in a call of
\* the error handler has written nothing - a mod exists in the store only
\* by a request that ended with status 201.
C23_ErrorLeavesStoreUnchanged ==
    \A r \in Reqs :
        /\ EndedInError(r) => CreatedBy(r) = {}
        /\ (pc[r] = "done" /\ CreatedBy(r) # {}) => res[r].status = 201

(***************************************************************************)
(* Requests with the same gamebananaModID.                                 *)
(***************************************************************************)
\* C24: after any interleaving of POST /mods requests with the same
\* gamebananaModID at most one mod with that gamebananaModID is in the
\* store, and a request that finds a mod with the id creates nothing and
\* answers with status 200.
C24_OneModPerGamebananaModID ==
    /\ \A k1, k2 \in 1..Len(mods) :
          mods[k1].gamebananaModID = mods[k2].gamebananaModID => k1 = k2
    /\ \A r \in Reqs :
          (pc[r] = "done" /\ locals[r].matchingMod # 0) =>
              /\ CreatedBy(r) = {}
              /\ res[r].status = 200

\* the responses sent and the calls of the error handler of a request
Outcomes(r) == res[r].responses + res[r].nextCalls

\* C25: every POST /mods request produces exactly one outcome, a response
\* or a call of the error handler, and never two - also when several of its
\* maps, validated concurrently, are rejected.
C25_ExactlyOneOutcome ==
    \A r \in Reqs :
        /\ Outcomes(r) <= 1
        /\ pc[r] = "done" => Outcomes(r) = 1
        /\ pc[r] \notin {"done", "none"} => Outcomes(r) = 0

\* both maps of a request were rejected and the request was answered once
C25_Witness ==
    /\ Len(tasks[1]) = 2
    /\ tasks[1][1].status = "rejected"
    /\ tasks[1][2].status = "rejected"
    /\ pc[1] = "done"
    /\ res[1].responses = 1
    /\ res[1].nextCalls = 0
    /\ res[1].status = 400

\* the techs of the store that a techAny lists
ListedTechs(techAny) ==
    {t \in 1..Len(TechList) : \E k \in 1..Len(techAny) : techAny[k] = TechList[t].name}

\* every name of a non-empty techAny is the name of a tech of the store
AllTechsExist(techAny) ==
    /\ techAny.type = "array"
    /\ techAny.arr # <<>>
    /\ \A k \in 1..Len(techAny.arr) :
          \E t \in 1..Len(TechList) : TechList[t].name = techAny.arr[k]

\* the default difficulty of the listed tech of the greatest difficulty order
HardestListedDifficultyID(techAny) ==
    LET hardest == CHOOSE t \in ListedTechs(techAny) :
                       \A u \in ListedTechs(techAny) :
                           TechList[u].difficultyOrder <= TechList[t].difficultyOrder
    IN  TechList[hardest].defaultDifficultyID

\* C26: a map without canonicalDifficulty whose non-empty techAny names only
\* techs of the store gets, as its canonical difficulty, the default
\* difficulty of the listed tech with the greatest difficulty order, also
\* when two listed techs share a difficulty
C26_HardestTechDifficulty ==
    \A r \in Reqs : \A m \in 1..Len(tasks[r]) :
        (/\ tasks[r][m].status # "pending"
         /\ body[r].maps[m].canonicalDifficulty = UndefinedName
         /\ AllTechsExist(body[r].maps[m].techAny))
        => /\ tasks[r][m].status = "fulfilled"
           /\ tasks[r][m].object.canonicalDifficulty =
                  HardestListedDifficultyID(body[r].maps[m].techAny.arr)

\* the row of Publishers with the given gamebananaID, 0 when there is none
PublisherRowOfGamebananaID(gamebananaID) ==
    FirstIndex(Publishers, LAMBDA publisher : publisher.gamebananaID = gamebananaID)

\* C27: a request that names its publisher by a publisherGamebananaID some
\* publisher row has is connected to the id of that row
C27_ConnectsPublisherRowID ==
    \A r \in Reqs :
        (/\ body[r].userID = 0
         /\ body[r].publisherGamebananaID # 0
         /\ PublisherRowOfGamebananaID(body[r].publisherGamebananaID) # 0
         /\ locals[r].publisherConnectionObject # NoConnection)
        => locals[r].publisherConnectionObject =
               Connect(Publishers[PublisherRowOfGamebananaID(body[r].publisherGamebananaID)].id)

====
